---- MODULE Spec2Model ----
(***************************************************************************)
(* Transaction pipeline of go-nebulas (core/transaction.go): construction, *)
(* canonical hashing, signing, integrity verification, admission and       *)
(* execution of one transaction against a world-state.                     *)
(*                                                                         *)
(* Uint128 is modelled with Uint128Bytes bytes instead of 16, so that its  *)
(* overflow stays reachable with small numbers; the gas constants are the  *)
(* program's.                                                              *)
(***************************************************************************)
EXTENDS Integers, Sequences, FiniteSets, TLC

VARIABLES ws, cp, tx, pre, ret, calls, dp, msgChan, loop, producer, adm, crashed, hist, bc, query

\* the transaction pipeline's variables, the dispatcher's and the chain's
txVars == <<ws, cp, tx, pre, ret, calls>>

dpVars == <<dp, msgChan, loop, producer, adm, crashed, hist>>

bcVars == <<bc, query>>

vars == <<txVars, dpVars, bcVars>>

----------------------------------------------------------------------------
(* Bounds of the model *)

\* width of the modelled Uint128, in bytes
Uint128Bytes == 2
\* VerifyExecution is called at most this many times
MaxCalls == 1
\* AcceptTransaction is not started once the sender's nonce has reached this
MaxNonce == 2
\* payload.BaseGasCount() of the deploy and call payloads
ContractBaseGas == 2
\* the event log holds at most this many events
MaxEvents == 3
\* the block tree holds at most this many blocks, the genesis block included
MaxBlocks == 4

\* capacity of Dispatcher.receivedMessageCh (65536 in NewDispatcher)
ReceivedMessageChSize == 1
\* size of the Dispatcher.dispatchedMessages LRU (51200 in NewDispatcher)
DispatchedMessagesSize == 1
\* capacity of a subscriber's msgChan
MsgChanSize == 2
\* PutMessage is called at most this many times
MaxPuts == 3

(* Program constants *)

MinGasCountPerTransaction == 20000
GasCountPerByte == 1
TransactionGasPrice == 1000000
\* capacity of Dispatcher.quitCh
QuitChSize == 10
MaxDataPayLoadLength == 131072
SECP256K1 == 1

Nil == "nil"
\* nil pointers to a Uint128, a Transaction, a corepb.Data, a corepb.Transaction
NilUint128 == 0 - 1
NilTx == [nil |-> "Transaction"]
NilData == [nil |-> "Data"]
NilMsg == [nil |-> "corepb.Transaction"]

TxPayloadBinaryType == "binary"
TxPayloadDeployType == "deploy"
TxPayloadCallType == "call"

TopicTransactionExecutionResult == "chain.transactionResult"
TxExecutionFailed == "TxExecutionFailed"
TxExecutionSuccess == "TxExecutionSuccess"

ErrInsufficientBalance == "ErrInsufficientBalance"
ErrOutOfGasLimit == "ErrOutOfGasLimit"
ErrInvalidTxPayloadType == "ErrInvalidTxPayloadType"
ErrInvalidChainID == "ErrInvalidChainID"
ErrInvalidTransactionHash == "ErrInvalidTransactionHash"
ErrInvalidTransactionSigner == "ErrInvalidTransactionSigner"
ErrSmallTransactionNonce == "ErrSmallTransactionNonce"
ErrLargeTransactionNonce == "ErrLargeTransactionNonce"
ErrZeroGasPrice == "ErrZeroGasPrice"
ErrZeroGasLimit == "ErrZeroGasLimit"
ErrInvalidArgument == "ErrInvalidArgument"
ErrNilArgument == "ErrNilArgument"
ErrTxDataPayLoadOutOfMaxLength == "ErrTxDataPayLoadOutOfMaxLength"
ErrInvalidTransactionData == "ErrInvalidTransactionData"
ErrInvalidProtoToTransaction == "ErrInvalidProtoToTransaction"

\* errors of the collaborators outside core/transaction.go
ErrUint128Overflow == "ErrUint128Overflow"
ErrUint128Underflow == "ErrUint128Underflow"
ErrUint128InvalidBytesSize == "ErrUint128InvalidBytesSize"
ErrInvalidAddress == "ErrInvalidAddress"
ErrInvalidPayload == "ErrInvalidPayload"
ErrInvalidSignature == "ErrInvalidSignature"
ErrExecutionFailed == "ErrExecutionFailed"
ErrContractCheckFailed == "ErrContractCheckFailed"
\* the error of json.Unmarshal
ErrUnmarshal == "ErrUnmarshal"
ErrIO == "ErrIO"

----------------------------------------------------------------------------
(* util.Uint128: checked arithmetic and the fixed-size encoding *)

RECURSIVE Pow(_, _)
Pow(b, e) == IF e = 0 THEN 1 ELSE b * Pow(b, e - 1)

Uint128Max == Pow(256, Uint128Bytes) - 1

Uint128 == 0..Uint128Max

Uint128Add(a, b) ==
    IF a > Uint128Max - b
    THEN [v |-> 0, err |-> ErrUint128Overflow]
    ELSE [v |-> a + b, err |-> Nil]

Uint128Sub(a, b) ==
    IF a < b
    THEN [v |-> 0, err |-> ErrUint128Underflow]
    ELSE [v |-> a - b, err |-> Nil]

Uint128Mul(a, b) ==
    IF a # 0 /\ b > Uint128Max \div a
    THEN [v |-> 0, err |-> ErrUint128Overflow]
    ELSE [v |-> a * b, err |-> Nil]

\* big-endian bytes, Uint128Bytes of them
ToFixedSizeByteSlice(n) ==
    IF n \notin Uint128
    THEN [v |-> <<>>, err |-> ErrUint128Overflow]
    ELSE [v |-> [i \in 1..Uint128Bytes |->
                    (n \div Pow(256, Uint128Bytes - i)) % 256],
          err |-> Nil]

RECURSIVE BytesToInt(_)
BytesToInt(bs) ==
    IF bs = <<>> THEN 0
    ELSE 256 * BytesToInt(SubSeq(bs, 1, Len(bs) - 1)) + bs[Len(bs)]

NewUint128FromFixedSizeByteSlice(bs) ==
    IF Len(bs) # Uint128Bytes
    THEN [v |-> 0, err |-> ErrUint128InvalidBytesSize]
    ELSE [v |-> BytesToInt(bs), err |-> Nil]

\* decimal digits, most significant first
RECURSIVE Uint128String(_)
Uint128String(n) ==
    IF n < 10 THEN <<n>> ELSE Append(Uint128String(n \div 10), n % 10)

----------------------------------------------------------------------------
(* Addresses *)

Addr == {"a1", "a2"}

Other(a) == CHOOSE b \in Addr : b # a

\* what signature recovery yields for a signature over another digest
NoAddr == "unknown"

----------------------------------------------------------------------------
(* Transaction: construction, hashing, signing, wire format *)

\* the zero value of a Transaction (new(Transaction))
EmptyTx ==
    [hash |-> <<>>, from |-> Nil, to |-> Nil, value |-> 0, nonce |-> 0,
     timestamp |-> 0, data |-> NilData, chainID |-> 0, gasPrice |-> 0,
     gasLimit |-> 0, alg |-> 0, sign |-> <<>>]

NewTransaction(chainID, from, to, value, nonce, payloadType, payload, gasPrice, gasLimit, now) ==
    IF gasPrice = NilUint128 \/ gasPrice <= 0
    THEN [tx |-> NilTx, err |-> ErrZeroGasPrice]
    ELSE IF gasLimit = NilUint128 \/ gasLimit <= 0
    THEN [tx |-> NilTx, err |-> ErrZeroGasLimit]
    ELSE IF from = Nil \/ to = Nil \/ value = NilUint128
    THEN [tx |-> NilTx, err |-> ErrInvalidArgument]
    ELSE IF Len(payload) > MaxDataPayLoadLength
    THEN [tx |-> NilTx, err |-> ErrTxDataPayLoadOutOfMaxLength]
    ELSE [tx |-> [hash |-> <<>>, from |-> from, to |-> to, value |-> value,
                  nonce |-> nonce, timestamp |-> now,
                  data |-> [type |-> payloadType, payload |-> payload],
                  chainID |-> chainID, gasPrice |-> gasPrice,
                  gasLimit |-> gasLimit, alg |-> 0, sign |-> <<>>],
          err |-> Nil]

DataLen(t) == Len(t.data.payload)

\* sha3-256 over the nine fields, modelled by its preimage (collision free)
calHash(t) ==
    LET value == ToFixedSizeByteSlice(t.value)
        gasPrice == ToFixedSizeByteSlice(t.gasPrice)
        gasLimit == ToFixedSizeByteSlice(t.gasLimit)
    IN  IF value.err # Nil THEN [v |-> <<>>, err |-> value.err]
        ELSE IF gasPrice.err # Nil THEN [v |-> <<>>, err |-> gasPrice.err]
        ELSE IF gasLimit.err # Nil THEN [v |-> <<>>, err |-> gasLimit.err]
        ELSE [v |-> <<t.from, t.to, value.v, t.nonce, t.timestamp, t.data,
                      t.chainID, gasPrice.v, gasLimit.v>>,
              err |-> Nil]

\* keystore.Signature.Sign: the signature of `key` over `digest`
SignatureSign(key, digest) == [key |-> key, digest |-> digest]

\* the address whose key made `sign`, when `sign` is over `hash`
RecoverSignerFromSignature(alg, hash, sign) ==
    IF alg # SECP256K1 \/ sign = <<>>
    THEN [v |-> NoAddr, err |-> ErrInvalidSignature]
    ELSE IF sign.digest = hash
    THEN [v |-> sign.key, err |-> Nil]
    ELSE [v |-> NoAddr, err |-> Nil]

\* mutant: a transaction that has a hash keeps it
Sign_KeepsHash(t, signer) ==
    IF signer = Nil THEN [tx |-> t, err |-> ErrNilArgument]
    ELSE LET hash == IF t.hash # <<>> THEN [v |-> t.hash, err |-> Nil]
                     ELSE calHash(t)
         IN  IF hash.err # Nil THEN [tx |-> t, err |-> hash.err]
             ELSE [tx |-> [t EXCEPT !.hash = hash.v,
                                    !.alg = SECP256K1,
                                    !.sign = SignatureSign(signer, hash.v)],
                   err |-> Nil]

\* Sign(signature): `signer` is the signature's key, Nil for a nil signature
Sign(t, signer) ==
    IF signer = Nil THEN [tx |-> t, err |-> ErrNilArgument]
    ELSE LET hash == calHash(t)
         IN  IF hash.err # Nil THEN [tx |-> t, err |-> hash.err]
             ELSE [tx |-> [t EXCEPT !.hash = hash.v,
                                    !.alg = SECP256K1,
                                    !.sign = SignatureSign(signer, hash.v)],
                   err |-> Nil]

verifySign(t) ==
    LET signer == RecoverSignerFromSignature(t.alg, t.hash, t.sign)
    IN  IF signer.err # Nil THEN signer.err
        ELSE IF t.from # signer.v THEN ErrInvalidTransactionSigner
        ELSE Nil

\* mutant: the hash is checked before the chain ID
VerifyIntegrity_HashFirst(t, chainID) ==
    LET wantedHash == calHash(t)
    IN  IF wantedHash.err # Nil THEN [tx |-> t, err |-> wantedHash.err]
        ELSE IF wantedHash.v # t.hash
        THEN [tx |-> t, err |-> ErrInvalidTransactionHash]
        ELSE IF t.chainID # chainID THEN [tx |-> t, err |-> ErrInvalidChainID]
        ELSE [tx |-> t, err |-> verifySign(t)]

\* the receiver after the call, and the error returned
VerifyIntegrity(t, chainID) ==
    IF t.chainID # chainID THEN [tx |-> t, err |-> ErrInvalidChainID]
    ELSE LET wantedHash == calHash(t)
         IN  IF wantedHash.err # Nil THEN [tx |-> t, err |-> wantedHash.err]
             ELSE IF wantedHash.v # t.hash
             THEN [tx |-> t, err |-> ErrInvalidTransactionHash]
             ELSE [tx |-> t, err |-> verifySign(t)]

\* mutant: the signature stays behind
ToProto_Unsigned(t) ==
    LET value == ToFixedSizeByteSlice(t.value)
        gasPrice == ToFixedSizeByteSlice(t.gasPrice)
        gasLimit == ToFixedSizeByteSlice(t.gasLimit)
    IN  IF value.err # Nil THEN [msg |-> NilMsg, err |-> value.err]
        ELSE IF gasPrice.err # Nil THEN [msg |-> NilMsg, err |-> gasPrice.err]
        ELSE IF gasLimit.err # Nil THEN [msg |-> NilMsg, err |-> gasLimit.err]
        ELSE [msg |-> [Hash |-> t.hash, From |-> t.from, To |-> t.to,
                       Value |-> value.v, Nonce |-> t.nonce,
                       Timestamp |-> t.timestamp, Data |-> t.data,
                       ChainId |-> t.chainID, GasPrice |-> gasPrice.v,
                       GasLimit |-> gasLimit.v, Alg |-> 0,
                       Sign |-> <<>>],
              err |-> Nil]

ToProto(t) ==
    LET value == ToFixedSizeByteSlice(t.value)
        gasPrice == ToFixedSizeByteSlice(t.gasPrice)
        gasLimit == ToFixedSizeByteSlice(t.gasLimit)
    IN  IF value.err # Nil THEN [msg |-> NilMsg, err |-> value.err]
        ELSE IF gasPrice.err # Nil THEN [msg |-> NilMsg, err |-> gasPrice.err]
        ELSE IF gasLimit.err # Nil THEN [msg |-> NilMsg, err |-> gasLimit.err]
        ELSE [msg |-> [Hash |-> t.hash, From |-> t.from, To |-> t.to,
                       Value |-> value.v, Nonce |-> t.nonce,
                       Timestamp |-> t.timestamp, Data |-> t.data,
                       ChainId |-> t.chainID, GasPrice |-> gasPrice.v,
                       GasLimit |-> gasLimit.v, Alg |-> t.alg,
                       Sign |-> t.sign],
              err |-> Nil]

AddressParseFromBytes(b) ==
    IF b \in Addr THEN [v |-> b, err |-> Nil]
    ELSE [v |-> Nil, err |-> ErrInvalidAddress]

\* the receiver t after FromProto(msg), assigned field by field up to the
\* first failure, and the error returned
FromProto(t, msg) ==
    IF msg = NilMsg THEN [tx |-> t, err |-> ErrInvalidProtoToTransaction]
    ELSE
    LET t1 == [t EXCEPT !.hash = msg.Hash]
        from == AddressParseFromBytes(msg.From)
        t2 == [t1 EXCEPT !.from = from.v]
        to == AddressParseFromBytes(msg.To)
        t3 == [t2 EXCEPT !.to = to.v]
        value == NewUint128FromFixedSizeByteSlice(msg.Value)
        t4 == [t3 EXCEPT !.value = value.v, !.nonce = msg.Nonce,
                         !.timestamp = msg.Timestamp,
                         !.chainID = msg.ChainId]
        t5 == [t4 EXCEPT !.data = msg.Data]
        gasPrice == NewUint128FromFixedSizeByteSlice(msg.GasPrice)
        t6 == [t5 EXCEPT !.gasPrice = gasPrice.v]
        gasLimit == NewUint128FromFixedSizeByteSlice(msg.GasLimit)
        t7 == [t6 EXCEPT !.gasLimit = gasLimit.v, !.alg = msg.Alg,
                         !.sign = msg.Sign]
    IN  IF from.err # Nil THEN [tx |-> t1, err |-> from.err]
        ELSE IF to.err # Nil THEN [tx |-> t2, err |-> to.err]
        ELSE IF value.err # Nil THEN [tx |-> t3, err |-> value.err]
        ELSE IF msg.Data = NilData
        THEN [tx |-> t4, err |-> ErrInvalidTransactionData]
        ELSE IF Len(msg.Data.payload) > MaxDataPayLoadLength
        THEN [tx |-> t4, err |-> ErrTxDataPayLoadOutOfMaxLength]
        ELSE IF gasPrice.err # Nil THEN [tx |-> t5, err |-> gasPrice.err]
        ELSE IF gasLimit.err # Nil THEN [tx |-> t6, err |-> gasLimit.err]
        ELSE [tx |-> t7, err |-> Nil]

----------------------------------------------------------------------------
(* Gas model and payloads *)

MinBalanceRequired(t) ==
    LET total == Uint128Mul(t.gasPrice, t.gasLimit)
    IN  IF total.err # Nil THEN total ELSE Uint128Add(total.v, t.value)

\* mutant: the payload bytes cost no gas
GasCountOfTxBase_IgnoresData(t) ==
    [v |-> MinGasCountPerTransaction, err |-> Nil]

GasCountOfTxBase(t) ==
    IF DataLen(t) > 0
    THEN LET dataGas == Uint128Mul(DataLen(t), GasCountPerByte)
         IN  IF dataGas.err # Nil THEN dataGas
             ELSE Uint128Add(MinGasCountPerTransaction, dataGas.v)
    ELSE [v |-> MinGasCountPerTransaction, err |-> Nil]

\* a deploy or call payload parses when its first byte is 1
LoadContractPayload(bytes) ==
    IF bytes # <<>> /\ bytes[1] = 1 THEN Nil ELSE ErrInvalidPayload

\* the payload (its type tag) and the error
LoadPayload(t) ==
    CASE t.data.type = TxPayloadBinaryType ->
            [payload |-> TxPayloadBinaryType, err |-> Nil]
      [] t.data.type = TxPayloadDeployType ->
            [payload |-> TxPayloadDeployType,
             err |-> LoadContractPayload(t.data.payload)]
      [] t.data.type = TxPayloadCallType ->
            [payload |-> TxPayloadCallType,
             err |-> LoadContractPayload(t.data.payload)]
      [] OTHER -> [payload |-> Nil, err |-> ErrInvalidTxPayloadType]

BaseGasCount(payload) ==
    IF payload = TxPayloadBinaryType THEN 0 ELSE ContractBaseGas

----------------------------------------------------------------------------
(* WorldState: balances, nonces, the gas recorded against each sender, the *)
(* event log and the stored transactions. A call `site` of a world-state   *)
(* operation fails with ErrIO, changing nothing, when `f` names it.        *)

NoFailure == "none"

GetOrCreateUserAccount(w, addr, site, f) ==
    [acc |-> addr, err |-> IF f = site THEN ErrIO ELSE Nil]

SubBalance(w, acc, value) ==
    LET b == Uint128Sub(w.balance[acc], value)
    IN  IF b.err # Nil THEN [ws |-> w, err |-> b.err]
        ELSE [ws |-> [w EXCEPT !.balance[acc] = b.v], err |-> Nil]

AddBalance(w, acc, value) ==
    LET b == Uint128Add(w.balance[acc], value)
    IN  IF b.err # Nil THEN [ws |-> w, err |-> b.err]
        ELSE [ws |-> [w EXCEPT !.balance[acc] = b.v], err |-> Nil]

IncrNonce(w, acc) == [w EXCEPT !.nonce[acc] = @ + 1]

\* the gas cost is added to what is already recorded against `from`
RecordGas(w, from, gasCost, f) ==
    IF f = "RecordGas" THEN [ws |-> w, err |-> ErrIO]
    ELSE [ws |-> [w EXCEPT !.gasConsumed[from] = @ + gasCost], err |-> Nil]

RecordEvent(w, txHash, event, f) ==
    IF f = "RecordEvent" THEN [ws |-> w, err |-> ErrIO]
    ELSE [ws |-> [w EXCEPT !.events =
                      Append(@, [txHash |-> txHash, event |-> event])],
          err |-> Nil]

\* back to the checkpoint c of the transaction being processed
Reset(w, c, site, f) ==
    IF f = site THEN [ws |-> w, err |-> ErrIO]
    ELSE [ws |-> c, err |-> Nil]

PutTx(w, hash, bytes, f) ==
    IF f = "PutTx" THEN [ws |-> w, err |-> ErrIO]
    ELSE [ws |-> [w EXCEPT !.txs =
                      {p \in @ : p[1] # hash} \cup {<<hash, bytes>>}],
          err |-> Nil]

\* proto.Marshal of a corepb.Transaction
Marshal(msg) == [bytes |-> <<"corepb.Transaction", msg>>, err |-> Nil]

----------------------------------------------------------------------------
(* payload.Execute: the binary payload does nothing and costs nothing; the *)
(* VM behind deploy and call is opaque: x.gas is the gas it reports, x.err *)
(* its error, and it may have moved x.d out of the contract account.       *)

NoExec == [gas |-> 0, err |-> Nil, d |-> 0, ran |-> FALSE]

ExecOutcomes(payload) ==
    IF payload = TxPayloadBinaryType
    THEN {[gas |-> 0, err |-> Nil, d |-> 0, ran |-> TRUE]}
    ELSE [gas : {0, 1, Uint128Max}, err : {Nil, ErrExecutionFailed},
          d : {0, 1}, ran : {TRUE}]

Execute(t, w, x) ==
    LET s == SubBalance(w, t.to, x.d)
        a == AddBalance(s.ws, Other(t.to), x.d)
    IN  [gas |-> x.gas, err |-> x.err,
         ws |-> IF s.err = Nil /\ a.err = Nil THEN a.ws ELSE w]

----------------------------------------------------------------------------
(* Execution *)

\* mutant: the balance is compared with gasPrice * gasLimit alone
checkBalance_IgnoresValue(t, w, f) ==
    LET fromAcc == GetOrCreateUserAccount(w, t.from, "checkBalance", f)
        gasFee == Uint128Mul(t.gasPrice, t.gasLimit)
    IN  IF fromAcc.err # Nil THEN [giveback |-> TRUE, err |-> fromAcc.err]
        ELSE IF gasFee.err # Nil
        THEN [giveback |-> FALSE, err |-> gasFee.err]
        ELSE IF w.balance[fromAcc.acc] < gasFee.v
        THEN [giveback |-> FALSE, err |-> ErrInsufficientBalance]
        ELSE [giveback |-> FALSE, err |-> Nil]

checkBalance(t, w, f) ==
    LET fromAcc == GetOrCreateUserAccount(w, t.from, "checkBalance", f)
        minBalanceRequired == MinBalanceRequired(t)
    IN  IF fromAcc.err # Nil THEN [giveback |-> TRUE, err |-> fromAcc.err]
        ELSE IF minBalanceRequired.err # Nil
        THEN [giveback |-> FALSE, err |-> minBalanceRequired.err]
        ELSE IF w.balance[fromAcc.acc] < minBalanceRequired.v
        THEN [giveback |-> FALSE, err |-> ErrInsufficientBalance]
        ELSE [giveback |-> FALSE, err |-> Nil]

\* mutant: the gas count is recorded, not its cost at the gas price
recordGas_IgnoresPrice(t, gasCnt, w, f) ==
    RecordGas(w, t.from, gasCnt, f)

recordGas(t, gasCnt, w, f) ==
    LET gasCost == Uint128Mul(t.gasPrice, gasCnt)
    IN  IF gasCost.err # Nil THEN [ws |-> w, err |-> gasCost.err]
        ELSE RecordGas(w, t.from, gasCost.v, f)

transfer(from, to, value, w, f) ==
    LET fromAcc == GetOrCreateUserAccount(w, from, "transfer.from", f)
        toAcc == GetOrCreateUserAccount(w, to, "transfer.to", f)
        sub == SubBalance(w, fromAcc.acc, value)
        add == AddBalance(sub.ws, toAcc.acc, value)
    IN  IF fromAcc.err # Nil
        THEN [ws |-> w, giveback |-> TRUE, err |-> fromAcc.err]
        ELSE IF toAcc.err # Nil
        THEN [ws |-> w, giveback |-> TRUE, err |-> toAcc.err]
        ELSE IF sub.err # Nil
        THEN [ws |-> sub.ws, giveback |-> FALSE, err |-> sub.err]
        ELSE IF add.err # Nil
        THEN [ws |-> add.ws, giveback |-> FALSE, err |-> add.err]
        ELSE [ws |-> add.ws, giveback |-> FALSE, err |-> Nil]

\* the TransactionEvent, marshalled to JSON, under the result topic
recordResultEvent(t, gasUsed, err, w, f) ==
    LET txEvent == [Hash |-> t.hash,
                    Status |-> IF err # Nil THEN TxExecutionFailed
                               ELSE TxExecutionSuccess,
                    GasUsed |-> Uint128String(gasUsed),
                    Error |-> IF err # Nil THEN err ELSE ""]
        event == [Topic |-> TopicTransactionExecutionResult,
                  Data |-> txEvent]
    IN  RecordEvent(w, t.hash, event, f)

Return(w, giveback, err, x) ==
    [ws |-> w, giveback |-> giveback, err |-> err, exec |-> x]

\* record gas, then the result event: the tail of every on-chain path
recordAndReturn(t, gasCnt, err, w, f, x) ==
    LET rg == recordGas(t, gasCnt, w, f)
        re == recordResultEvent(t, gasCnt, err, rg.ws, f)
    IN  IF rg.err # Nil THEN Return(rg.ws, FALSE, rg.err, x)
        ELSE IF re.err # Nil THEN Return(re.ws, TRUE, re.err, x)
        ELSE Return(re.ws, FALSE, Nil, x)

\* mutant: running out of gas in the payload does not reset the world-state
executePayload_NoOutOfGasReset(t, w, c, f, x, payload, gasUsed) ==
    LET tr == transfer(t.from, t.to, t.value, w, f)
        ex == Execute(t, tr.ws, x)
        xr == [x EXCEPT !.ran = TRUE]
        r5 == IF ex.err # Nil THEN Reset(ex.ws, c, "Reset.exeErr", f)
              ELSE [ws |-> ex.ws, err |-> Nil]
        allGas == Uint128Add(gasUsed, ex.gas)
    IN  IF tr.err # Nil THEN Return(tr.ws, tr.giveback, tr.err, NoExec)
        ELSE IF r5.err # Nil THEN Return(r5.ws, TRUE, r5.err, xr)
        ELSE IF allGas.err # Nil THEN Return(r5.ws, FALSE, allGas.err, xr)
        ELSE IF t.gasLimit < allGas.v
        THEN recordAndReturn(t, t.gasLimit, ErrOutOfGasLimit, r5.ws, f, xr)
        ELSE recordAndReturn(t, allGas.v, ex.err, r5.ws, f, xr)

\* mutant: a failing payload does not reset the world-state
executePayload_NoFailureReset(t, w, c, f, x, payload, gasUsed) ==
    LET tr == transfer(t.from, t.to, t.value, w, f)
        ex == Execute(t, tr.ws, x)
        xr == [x EXCEPT !.ran = TRUE]
        allGas == Uint128Add(gasUsed, ex.gas)
        r7 == Reset(ex.ws, c, "Reset.outOfGas", f)
    IN  IF tr.err # Nil THEN Return(tr.ws, tr.giveback, tr.err, NoExec)
        ELSE IF allGas.err # Nil THEN Return(ex.ws, FALSE, allGas.err, xr)
        ELSE IF t.gasLimit < allGas.v
        THEN IF r7.err # Nil THEN Return(r7.ws, TRUE, r7.err, xr)
             ELSE recordAndReturn(t, t.gasLimit, ErrOutOfGasLimit, r7.ws,
                                  f, xr)
        ELSE recordAndReturn(t, allGas.v, ex.err, ex.ws, f, xr)

\* mutant: out of gas, the gas the payload asked for is recorded
executePayload_RecordsAllGas(t, w, c, f, x, payload, gasUsed) ==
    LET tr == transfer(t.from, t.to, t.value, w, f)
        ex == Execute(t, tr.ws, x)
        xr == [x EXCEPT !.ran = TRUE]
        r5 == IF ex.err # Nil THEN Reset(ex.ws, c, "Reset.exeErr", f)
              ELSE [ws |-> ex.ws, err |-> Nil]
        allGas == Uint128Add(gasUsed, ex.gas)
        r7 == Reset(r5.ws, c, "Reset.outOfGas", f)
    IN  IF tr.err # Nil THEN Return(tr.ws, tr.giveback, tr.err, NoExec)
        ELSE IF r5.err # Nil THEN Return(r5.ws, TRUE, r5.err, xr)
        ELSE IF allGas.err # Nil THEN Return(r5.ws, FALSE, allGas.err, xr)
        ELSE IF t.gasLimit < allGas.v
        THEN IF r7.err # Nil THEN Return(r7.ws, TRUE, r7.err, xr)
             ELSE recordAndReturn(t, allGas.v, ErrOutOfGasLimit, r7.ws,
                                  f, xr)
        ELSE recordAndReturn(t, allGas.v, ex.err, r5.ws, f, xr)

\* steps 5 to 8, with gasUsed = base gas + payload base gas
executePayload(t, w, c, f, x, payload, gasUsed) ==
    LET tr == transfer(t.from, t.to, t.value, w, f)
        ex == Execute(t, tr.ws, x)
        xr == [x EXCEPT !.ran = TRUE]
        r5 == IF ex.err # Nil THEN Reset(ex.ws, c, "Reset.exeErr", f)
              ELSE [ws |-> ex.ws, err |-> Nil]
        allGas == Uint128Add(gasUsed, ex.gas)
        r7 == Reset(r5.ws, c, "Reset.outOfGas", f)
    IN  IF tr.err # Nil THEN Return(tr.ws, tr.giveback, tr.err, NoExec)
        ELSE IF r5.err # Nil THEN Return(r5.ws, TRUE, r5.err, xr)
        ELSE IF allGas.err # Nil THEN Return(r5.ws, FALSE, allGas.err, xr)
        ELSE IF t.gasLimit < allGas.v
        THEN IF r7.err # Nil THEN Return(r7.ws, TRUE, r7.err, xr)
             ELSE recordAndReturn(t, t.gasLimit, ErrOutOfGasLimit, r7.ws,
                                  f, xr)
        ELSE recordAndReturn(t, allGas.v, ex.err, r5.ws, f, xr)

\* mutant: step 4 charges g1, the gas the payload would have needed
VerifyExecution_ChargesG1(t, w, c, f, x) ==
    LET cb == checkBalance(t, w, f)
        g0 == GasCountOfTxBase(t)
        pl == LoadPayload(t)
        g1 == Uint128Add(g0.v, BaseGasCount(pl.payload))
    IN  IF cb.err # Nil THEN Return(w, cb.giveback, cb.err, NoExec)
        ELSE IF g0.err # Nil THEN Return(w, FALSE, g0.err, NoExec)
        ELSE IF t.gasLimit < g0.v
        THEN Return(w, FALSE, ErrOutOfGasLimit, NoExec)
        ELSE IF pl.err # Nil
        THEN recordAndReturn(t, g0.v, pl.err, w, f, NoExec)
        ELSE IF g1.err # Nil THEN Return(w, FALSE, g1.err, NoExec)
        ELSE IF t.gasLimit < g1.v
        THEN recordAndReturn(t, g1.v, ErrOutOfGasLimit, w, f, NoExec)
        ELSE executePayload(t, w, c, f, x, pl.payload, g1.v)

\* VerifyExecution(tx, block, ws) with checkpoint c, failing call f and
\* Execute outcome x: the world-state after it, giveback, the error
VerifyExecution(t, w, c, f, x) ==
    LET cb == checkBalance(t, w, f)
        g0 == GasCountOfTxBase(t)
        pl == LoadPayload(t)
        g1 == Uint128Add(g0.v, BaseGasCount(pl.payload))
    IN  IF cb.err # Nil THEN Return(w, cb.giveback, cb.err, NoExec)
        ELSE IF g0.err # Nil THEN Return(w, FALSE, g0.err, NoExec)
        ELSE IF t.gasLimit < g0.v
        THEN Return(w, FALSE, ErrOutOfGasLimit, NoExec)
        ELSE IF pl.err # Nil
        THEN recordAndReturn(t, g0.v, pl.err, w, f, NoExec)
        ELSE IF g1.err # Nil THEN Return(w, FALSE, g1.err, NoExec)
        ELSE IF t.gasLimit < g1.v
        THEN recordAndReturn(t, t.gasLimit, ErrOutOfGasLimit, w, f, NoExec)
        ELSE executePayload(t, w, c, f, x, pl.payload, g1.v)

----------------------------------------------------------------------------
(* Simulation *)

\* the largest gas, 5 * 10^10 in the program, is the largest number here
TransactionMaxGas == Uint128Max

checkBalanceForGasUsedAndValue(w, address, value, gasUsed, gasPrice, f) ==
    LET fromAcc == GetOrCreateUserAccount(w, address, "checkBalance", f)
        gasFee == Uint128Mul(gasPrice, gasUsed)
        balanceRequired == Uint128Add(gasFee.v, value)
    IN  IF fromAcc.err # Nil THEN [ok |-> FALSE, err |-> fromAcc.err]
        ELSE IF gasFee.err # Nil THEN [ok |-> FALSE, err |-> gasFee.err]
        ELSE IF balanceRequired.err # Nil
        THEN [ok |-> FALSE, err |-> balanceRequired.err]
        ELSE [ok |-> w.balance[fromAcc.acc] >= balanceRequired.v,
              err |-> Nil]

\* gasUsed = GasCountOfTxBase + payload.BaseGasCount, and the payload
CalculateMinGasExpected(t) ==
    LET g0 == GasCountOfTxBase(t)
        pl == LoadPayload(t)
        g1 == Uint128Add(g0.v, BaseGasCount(pl.payload))
    IN  IF g0.err # Nil
        THEN [gasUsed |-> NilUint128, payload |-> Nil, err |-> g0.err]
        ELSE IF pl.err # Nil
        THEN [gasUsed |-> NilUint128, payload |-> Nil, err |-> pl.err]
        ELSE IF g1.err # Nil
        THEN [gasUsed |-> NilUint128, payload |-> pl.payload, err |-> g1.err]
        ELSE [gasUsed |-> g1.v, payload |-> pl.payload, err |-> Nil]

SimulateReturn(t, w, gasUsed, result, exeErr, err) ==
    [tx |-> t, ws |-> w, gasUsed |-> gasUsed, result |-> result,
     exeErr |-> exeErr, err |-> err]

\* tx.SimulateExecution(block), w being block.WorldState(): the receiver
\* and that world-state after the call, and the four values returned
SimulateExecution(t, w, f, x) ==
    LET t1 == [t EXCEPT !.gasLimit = TransactionMaxGas]
        hash == calHash(t1)
        t2 == [t1 EXCEPT !.hash = hash.v]
        min == CalculateMinGasExpected(t2)
        contract == t2.data.type \in {TxPayloadCallType, TxPayloadDeployType}
        toAcc == GetOrCreateUserAccount(w, t2.to, "simulate.to", f)
        add == AddBalance(w, toAcc.acc, t2.value)
        ex == Execute(t2, add.ws, x)
        result == IF ex.err = Nil THEN "result" ELSE ""
        allGas == Uint128Add(min.gasUsed, ex.gas)
        w1 == IF contract THEN ex.ws ELSE w
        gasUsed == IF contract THEN allGas.v ELSE min.gasUsed
        cb == checkBalanceForGasUsedAndValue(w1, t2.from, t2.value, gasUsed,
                                             t2.gasPrice, f)
    IN  IF hash.err # Nil
        THEN SimulateReturn(t1, w, NilUint128, "", Nil, hash.err)
        ELSE IF min.err # Nil
        THEN SimulateReturn(t2, w, NilUint128, "", Nil, min.err)
        ELSE IF contract /\ toAcc.err # Nil
        THEN SimulateReturn(t2, w, NilUint128, "", Nil, toAcc.err)
        ELSE IF contract /\ add.err # Nil
        THEN SimulateReturn(t2, add.ws, NilUint128, "", Nil, add.err)
        ELSE IF contract /\ allGas.err # Nil
        THEN SimulateReturn(t2, ex.ws, NilUint128, "", Nil, allGas.err)
        ELSE IF contract /\ ex.err # Nil
        THEN SimulateReturn(t2, ex.ws, gasUsed, result, ex.err, Nil)
        ELSE IF cb.err # Nil
        THEN SimulateReturn(t2, w1, gasUsed, IF contract THEN result ELSE "",
                            Nil, cb.err)
        ELSE SimulateReturn(t2, w1, gasUsed, IF contract THEN result ELSE "",
                            IF cb.ok THEN Nil ELSE ErrInsufficientBalance,
                            Nil)

\* the world-state of the block made for a simulation: a snapshot of the
\* canonical one
ScratchBlock(w) == [ws |-> w, canonical |-> w]

\* mutant: the simulation runs on the canonical world-state itself
RollBack_Keeps(block, w) == w

\* the block is rolled back: what the simulation left in its world-state
\* is dropped
RollBack(block, w) == block.canonical

\* BlockChain.EstimateGas: the simulation on a block of its own; the
\* canonical world-state after it, and what SimulateExecution returned
EstimateGas(t, canonical, f, x) ==
    LET block == ScratchBlock(canonical)
        r == SimulateExecution(t, block.ws, f, x)
    IN  [canonical |-> RollBack(block, r.ws), sim |-> r]

----------------------------------------------------------------------------
(* Admission *)

\* mutant: the nonce is compared with the current nonce, not its successor
CheckTransaction_CurrentNonce(t, w, f) ==
    LET fromAcc == GetOrCreateUserAccount(w, t.from, "CheckTransaction", f)
        currentNonce == w.nonce[fromAcc.acc]
    IN  IF fromAcc.err # Nil
        THEN [ws |-> w, giveback |-> TRUE, err |-> fromAcc.err]
        ELSE IF t.nonce < currentNonce
        THEN [ws |-> w, giveback |-> FALSE, err |-> ErrSmallTransactionNonce]
        ELSE IF t.nonce > currentNonce
        THEN [ws |-> w, giveback |-> TRUE, err |-> ErrLargeTransactionNonce]
        ELSE [ws |-> w, giveback |-> FALSE, err |-> Nil]

CheckTransaction(t, w, f) ==
    LET fromAcc == GetOrCreateUserAccount(w, t.from, "CheckTransaction", f)
        currentNonce == w.nonce[fromAcc.acc]
    IN  IF fromAcc.err # Nil
        THEN [ws |-> w, giveback |-> TRUE, err |-> fromAcc.err]
        ELSE IF t.nonce < currentNonce + 1
        THEN [ws |-> w, giveback |-> FALSE, err |-> ErrSmallTransactionNonce]
        ELSE IF t.nonce > currentNonce + 1
        THEN [ws |-> w, giveback |-> TRUE, err |-> ErrLargeTransactionNonce]
        ELSE [ws |-> w, giveback |-> FALSE, err |-> Nil]

\* mutant: the nonce is raised before the transaction is stored
AcceptTransaction_IncrFirst(t, w, f) ==
    LET pbTx == ToProto(t)
        txBytes == Marshal(pbTx.msg)
        fromAcc == GetOrCreateUserAccount(w, t.from, "AcceptTransaction", f)
        incr == IncrNonce(w, fromAcc.acc)
        put == PutTx(incr, t.hash, txBytes.bytes, f)
    IN  IF pbTx.err # Nil
        THEN [ws |-> w, giveback |-> TRUE, err |-> pbTx.err]
        ELSE IF txBytes.err # Nil
        THEN [ws |-> w, giveback |-> TRUE, err |-> txBytes.err]
        ELSE IF fromAcc.err # Nil
        THEN [ws |-> w, giveback |-> TRUE, err |-> fromAcc.err]
        ELSE IF put.err # Nil
        THEN [ws |-> put.ws, giveback |-> TRUE, err |-> put.err]
        ELSE [ws |-> put.ws, giveback |-> FALSE, err |-> Nil]

AcceptTransaction(t, w, f) ==
    LET pbTx == ToProto(t)
        txBytes == Marshal(pbTx.msg)
        put == PutTx(w, t.hash, txBytes.bytes, f)
        fromAcc == GetOrCreateUserAccount(put.ws, t.from,
                                          "AcceptTransaction", f)
    IN  IF pbTx.err # Nil
        THEN [ws |-> w, giveback |-> TRUE, err |-> pbTx.err]
        ELSE IF txBytes.err # Nil
        THEN [ws |-> w, giveback |-> TRUE, err |-> txBytes.err]
        ELSE IF put.err # Nil
        THEN [ws |-> put.ws, giveback |-> TRUE, err |-> put.err]
        ELSE IF fromAcc.err # Nil
        THEN [ws |-> put.ws, giveback |-> TRUE, err |-> fromAcc.err]
        ELSE [ws |-> IncrNonce(put.ws, fromAcc.acc), giveback |-> FALSE,
              err |-> Nil]

----------------------------------------------------------------------------
(* net.Dispatcher: subscribers, messages, and the libraries it is built on *)

Subscribers == {"s1", "s2"}

\* Subscriber.MessageType() and Subscriber.DoFilter()
MessageType(s) == "block"

DoFilter(s) == s = "s1"

MessageTypes == {MessageType(s) : s \in Subscribers}

\* the messages producers put: (type, hash)
MessageKinds == {<<"block", "h1">>, <<"block", "h2">>, <<"tx", "h3">>}

Producers == {"p1", "p2"}

\* the zero value of a Message variable
NoMessage == [type |-> Nil, hash |-> Nil, id |-> 0]

\* a nil *sync.Map, which holds no subscriber
NilMap == {Nil}

\* sync.Map.Load and a Go map read: the value, or nil / false for no key
Load(m, key) == IF key \in DOMAIN m THEN m[key] ELSE NilMap

MapRead(m, key) == IF key \in DOMAIN m THEN m[key] ELSE FALSE

\* sync.Map.Store, a Go map write, and delete
Store(m, key, value) ==
    [k \in DOMAIN m \cup {key} |-> IF k = key THEN value ELSE m[k]]

Delete(m, key) == [k \in DOMAIN m \ {key} |-> m[k]]

\* lru.Cache of DispatchedMessagesSize keys, the oldest first
Contains(cache, key) == \E i \in 1..Len(cache) : cache[i] = key

Add(cache, key) ==
    IF Len(cache) < DispatchedMessagesSize THEN Append(cache, key)
    ELSE Append(Tail(cache), key)

ContainsOrAdd(cache, key) ==
    IF Contains(cache, key) THEN [exist |-> TRUE, cache |-> cache]
    ELSE [exist |-> FALSE, cache |-> Add(cache, key)]

NewDispatcher ==
    [subscribersMap |-> [mt \in {} |-> {}],
     quitCh |-> 0,
     receivedMessageCh |-> <<>>,
     dispatchedMessages |-> <<>>,
     filters |-> [mt \in {} |-> FALSE]]

\* a new Dispatcher, not started, with its subscribers not yet registered
\* and its producers and the registering goroutine not yet calling
InitDispatcher ==
    /\ dp = NewDispatcher
    /\ msgChan = [s \in Subscribers |-> <<>>]
    /\ loop = [pc |-> "new", msg |-> NoMessage, atStart |-> {},
               visited |-> {}]
    /\ producer = [p \in Producers |-> [pc |-> "idle", msg |-> NoMessage]]
    /\ adm = [pc |-> "idle", s |-> Nil]
    /\ crashed = Nil
    /\ hist = [puts |-> 0, stopped |-> FALSE, registered |-> {},
               deregistered |-> {},
               taken |-> <<>>, full |-> {}, duplicates |-> {},
               added |-> <<>>,
               recv |-> [s \in Subscribers |-> <<>>]]

----------------------------------------------------------------------------
(* core.BlockChain: the block tree, its canonical tail and its queries.    *)
(* A block is its index in bc.blocks, in the order of attachment; the      *)
(* genesis block is the first. Of a block's transactions the gas prices    *)
(* are kept.                                                               *)

ErrMissingParent == "ErrMissingParent"
ErrNotCanonical == "ErrNotCanonical"

genesisBlock == 1

\* the block that is no block: the parent of the genesis block
NoBlock == 0

Min(a, b) == IF a < b THEN a ELSE b

NewBlockChain ==
    [blocks |-> <<[parentHash |-> NoBlock, height |-> 1,
                   transactions |-> <<>>]>>,
     tailBlock |-> genesisBlock,
     latestIrreversibleBlock |-> genesisBlock,
     detachedTailBlocks |-> {genesisBlock}]

NoQuery == [op |-> "none", arg |-> NoBlock, n |-> 0, block |-> NoBlock,
            err |-> Nil, blocks |-> <<>>, tails |-> {}, gasPrice |-> 0]

InitChain ==
    /\ bc = NewBlockChain
    /\ query = NoQuery

Blocks(c) == DOMAIN c.blocks

ParentOf(c, b) == c.blocks[b].parentHash

HeightOf(c, b) == c.blocks[b].height

\* the ancestor of b at height h, for h not above b
RECURSIVE AncestorAt(_, _, _)
AncestorAt(c, b, h) ==
    IF HeightOf(c, b) <= h THEN b ELSE AncestorAt(c, ParentOf(c, b), h)

\* both sides step to their parents until they meet
RECURSIVE Lockstep(_, _, _)
Lockstep(c, a, b) ==
    IF a = b THEN [block |-> a, err |-> Nil]
    ELSE IF a = genesisBlock \/ b = genesisBlock
    THEN [block |-> NoBlock, err |-> ErrMissingParent]
    ELSE Lockstep(c, ParentOf(c, a), ParentOf(c, b))

\* mutant: the walk from b starts at its parent
FindCommonAncestorWithTail_FromParent(c, b) ==
    LET h == Min(HeightOf(c, b) - 1, HeightOf(c, c.tailBlock))
    IN  IF b = genesisBlock THEN [block |-> b, err |-> Nil]
        ELSE Lockstep(c, AncestorAt(c, ParentOf(c, b), h),
                      AncestorAt(c, c.tailBlock, h))

FindCommonAncestorWithTail(c, b) ==
    LET h == Min(HeightOf(c, b), HeightOf(c, c.tailBlock))
    IN  Lockstep(c, AncestorAt(c, b, h), AncestorAt(c, c.tailBlock, h))

\* from cur towards genesis, keeping the blocks passed, until `from`
RECURSIVE FetchWalk(_, _, _, _, _)
FetchWalk(c, n, from, cur, passed) ==
    IF cur = from
    THEN [blocks |-> SubSeq(passed, 1, Min(n, Len(passed))), err |-> Nil]
    ELSE IF cur = genesisBlock
    THEN [blocks |-> <<>>, err |-> ErrNotCanonical]
    ELSE FetchWalk(c, n, from, ParentOf(c, cur), <<cur>> \o passed)

\* mutant: the n blocks nearest the tail are returned
FetchDescendantInCanonicalChain_NearTail(c, n, from) ==
    LET r == FetchWalk(c, MaxBlocks, from, c.tailBlock, <<>>)
        k == Len(r.blocks)
    IN  [blocks |-> SubSeq(r.blocks, k - Min(n, k) + 1, k), err |-> r.err]

FetchDescendantInCanonicalChain(c, n, from) ==
    FetchWalk(c, n, from, c.tailBlock, <<>>)

DetachedTailBlocks(c) == c.detachedTailBlocks

RECURSIVE Lowest(_)
Lowest(prices) ==
    IF Len(prices) = 1 THEN prices[1]
    ELSE Min(prices[1], Lowest(Tail(prices)))

\* mutant: the price of the block's first transaction
GasPrice_First(c) ==
    LET txs == c.blocks[c.tailBlock].transactions
    IN  IF txs = <<>> THEN TransactionGasPrice ELSE txs[1]

GasPrice(c) ==
    LET txs == c.blocks[c.tailBlock].transactions
    IN  IF txs = <<>> THEN TransactionGasPrice ELSE Lowest(txs)

\* mutant: the parent stays among the detached tails
Attach_KeepsParent(c, parent, txs) ==
    [c EXCEPT
        !.blocks = Append(@, [parentHash |-> parent,
                              height |-> HeightOf(c, parent) + 1,
                              transactions |-> txs]),
        !.detachedTailBlocks = @ \cup {Len(c.blocks) + 1}]

\* BlockPool.Push of a sealed block whose parent is in the tree
Attach(c, parent, txs) ==
    [c EXCEPT
        !.blocks = Append(@, [parentHash |-> parent,
                              height |-> HeightOf(c, parent) + 1,
                              transactions |-> txs]),
        !.detachedTailBlocks = (@ \ {parent}) \cup {Len(c.blocks) + 1}]

\* the finality rule, which leaves the marker where it is until the
\* producer advances it
UpdateLIB(c) == c.latestIrreversibleBlock

\* mutant: the tail left behind becomes the irreversible block
SetTailBlock_MarksOldTail(c, b) ==
    [c EXCEPT !.tailBlock = b, !.latestIrreversibleBlock = c.tailBlock]

SetTailBlock(c, b) ==
    [c EXCEPT !.tailBlock = b, !.latestIrreversibleBlock = UpdateLIB(c)]

----------------------------------------------------------------------------
(* Contracts *)

\* the hash of the transaction that deployed the contract at a2; the
\* account at a1 has no birth place
BirthPlace(addr) == IF addr = "a2" THEN <<"deploy">> ELSE <<>>

GetContractAccount(w, addr, f) ==
    [acc |-> addr, err |-> IF f = "GetContractAccount" THEN ErrIO ELSE Nil]

\* the events recorded under the hash, in the order they were recorded
FetchEvents(w, txHash, f) ==
    IF f = "FetchEvents" THEN [events |-> <<>>, err |-> ErrIO]
    ELSE [events |-> [i \in 1..Len(SelectSeq(w.events,
                                             LAMBDA e : e.txHash = txHash))
                        |-> SelectSeq(w.events,
                                      LAMBDA e : e.txHash = txHash)[i].event],
          err |-> Nil]

\* json.Unmarshal of an event's data into a TransactionEvent
Unmarshal(data) ==
    IF "Status" \in DOMAIN data THEN [v |-> data, err |-> Nil]
    ELSE [v |-> data, err |-> ErrUnmarshal]

\* the loop over the birth events: Nil and result = true at the first
\* result event with status success, the error of the first result event
\* that does not parse before it
RECURSIVE RangeBirthEvents(_)
RangeBirthEvents(birthEvents) ==
    IF birthEvents = <<>> THEN [result |-> FALSE, err |-> Nil]
    ELSE LET v == Head(birthEvents)
         IN  IF v.Topic = TopicTransactionExecutionResult
             THEN IF Unmarshal(v.Data).err # Nil
                  THEN [result |-> FALSE, err |-> Unmarshal(v.Data).err]
                  ELSE IF Unmarshal(v.Data).v.Status = TxExecutionSuccess
                  THEN [result |-> TRUE, err |-> Nil]
                  ELSE RangeBirthEvents(Tail(birthEvents))
             ELSE RangeBirthEvents(Tail(birthEvents))

\* the contract returned, Nil for none, and the error
CheckContract(addr, w, f) ==
    LET contract == GetContractAccount(w, addr, f)
        birthEvents == FetchEvents(w, BirthPlace(contract.acc), f)
        range == RangeBirthEvents(birthEvents.events)
    IN  IF contract.err # Nil THEN [contract |-> Nil, err |-> contract.err]
        ELSE IF Len(BirthPlace(contract.acc)) = 0
        THEN [contract |-> Nil, err |-> ErrContractCheckFailed]
        ELSE IF birthEvents.err # Nil
        THEN [contract |-> Nil, err |-> birthEvents.err]
        ELSE IF range.err # Nil THEN [contract |-> Nil, err |-> range.err]
        ELSE IF ~range.result
        THEN [contract |-> Nil, err |-> ErrContractCheckFailed]
        ELSE [contract |-> contract.acc, err |-> Nil]

----------------------------------------------------------------------------
(* The state machine: one transaction `tx` processed against the           *)
(* world-state `ws`; `cp` is the checkpoint Reset goes back to, `pre` the  *)
(* world-state and the transaction before the last call, `ret` what that   *)
(* call returned and `calls` the number of VerifyExecution calls so far.   *)

ChainIDs == {1, 2}

Payloads ==
    {[type |-> TxPayloadBinaryType, payload |-> <<>>],
     [type |-> TxPayloadBinaryType, payload |-> <<0>>],
     [type |-> TxPayloadDeployType, payload |-> <<1>>],
     [type |-> TxPayloadCallType, payload |-> <<1>>],
     [type |-> TxPayloadCallType, payload |-> <<0>>],
     [type |-> "unknown", payload |-> <<>>]}

\* (gasPrice, value)
Prices == {<<1, 0>>, <<1, 1>>, <<2, 1>>, <<Uint128Max, 0>>, <<1, Uint128Max>>}

\* around the gas a payload of that length needs
GasLimits(payload) ==
    LET g0 == MinGasCountPerTransaction + Len(payload) * GasCountPerByte
    IN  {g0 - 1, g0, g0 + ContractBaseGas, g0 + ContractBaseGas + 1}

\* transactions made by NewTransaction and signed by their sender
ExecTxs ==
    {Sign(NewTransaction(1, "a1", to, pv[2], 1, d.type, d.payload, pv[1],
                         gl, 1).tx, "a1").tx :
        <<to, pv, d, gl>> \in
            {q \in Addr \X Prices \X Payloads \X
                   UNION {GasLimits(e.payload) : e \in Payloads} :
                q[4] \in GasLimits(q[3].payload)}}

\* a transaction as its sender signed it and as it arrives from the wire:
\* unchanged, or with one field altered on the way
Wire(t) ==
    LET m == ToProto(t).msg
    IN  {m, [m EXCEPT !.Nonce = @ + 1], [m EXCEPT !.ChainId = 2],
         [m EXCEPT !.Sign = <<>>, !.Alg = 0]}

WireTxs ==
    {FromProto(EmptyTx, m).tx :
        m \in UNION {Wire(Sign(NewTransaction(c, "a1", "a2", 1, n,
                                              TxPayloadBinaryType, <<>>, 1,
                                              MinGasCountPerTransaction,
                                              1).tx, signer).tx) :
                        <<c, n, signer>> \in ChainIDs \X {1} \X Addr}}

InitWorldStates ==
    {[balance |-> [a \in Addr |-> IF a = "a1" THEN b1 ELSE b2],
      nonce |-> [a \in Addr |-> 0],
      gasConsumed |-> [a \in Addr |-> 0],
      events |-> <<>>,
      txs |-> {}] :
        <<b1, b2>> \in {MinGasCountPerTransaction, Uint128Max - 1}
                       \X {0, Uint128Max}}

Result(op, arg, giveback, err, x) ==
    [op |-> op, arg |-> arg, giveback |-> giveback, err |-> err, exec |-> x]

\* the transactions of ExecTxs that pay 1 to a2 at gas price 1, with gas
\* for the payload's base cost and one unit of execution
PayingTxs ==
    {t \in ExecTxs :
        /\ t.to = "a2" /\ t.value = 1 /\ t.gasPrice = 1
        /\ t.gasLimit = MinGasCountPerTransaction
                            + DataLen(t) * GasCountPerByte
                            + ContractBaseGas + 1}

Init ==
    /\ ws \in {w \in InitWorldStates : w.balance["a1"] = Uint128Max - 1}
    /\ cp = ws
    /\ tx \in PayingTxs \cup WireTxs
    /\ pre = [ws |-> ws, tx |-> tx]
    /\ ret = Result("init", 0, FALSE, Nil, NoExec)
    /\ calls = 0
    /\ InitDispatcher
    /\ InitChain

\* the block opens a checkpoint for the transaction it processes
Checkpoint ==
    /\ cp # ws
    /\ cp' = ws
    /\ UNCHANGED <<ws, tx, pre, ret, calls>>
    /\ UNCHANGED <<dpVars, bcVars>>

DoCheckTransaction ==
    \E f \in {NoFailure, "CheckTransaction"} :
        LET r == CheckTransaction(tx, ws, f)
        IN  /\ ws' = r.ws
            /\ pre' = [ws |-> ws, tx |-> tx]
            /\ ret' = Result("CheckTransaction", 0, r.giveback, r.err, NoExec)
            /\ UNCHANGED <<cp, tx, calls>>
            /\ UNCHANGED <<dpVars, bcVars>>

\* the block runs VerifyExecution on the world-state of the checkpoint it
\* opened for the transaction
DoVerifyExecution ==
    /\ calls < MaxCalls
    /\ ws = cp
    /\ \E f \in {NoFailure, "checkBalance", "transfer.from", "transfer.to",
                 "Reset.exeErr", "Reset.outOfGas", "RecordGas",
                 "RecordEvent"} :
       \E x \in ExecOutcomes(tx.data.type) :
        LET r == VerifyExecution(tx, ws, cp, f, x)
        IN  /\ ws' = r.ws
            /\ pre' = [ws |-> ws, tx |-> tx]
            /\ ret' = Result("VerifyExecution", 0, r.giveback, r.err, r.exec)
            /\ calls' = calls + 1
            /\ UNCHANGED <<cp, tx>>
            /\ UNCHANGED <<dpVars, bcVars>>

DoAcceptTransaction ==
    /\ ws.nonce[tx.from] < MaxNonce
    /\ \E f \in {NoFailure, "PutTx", "AcceptTransaction"} :
        LET r == AcceptTransaction(tx, ws, f)
        IN  /\ ws' = r.ws
            /\ pre' = [ws |-> ws, tx |-> tx]
            /\ ret' = Result("AcceptTransaction", 0, r.giveback, r.err,
                             NoExec)
            /\ UNCHANGED <<cp, tx, calls>>
            /\ UNCHANGED <<dpVars, bcVars>>

DoVerifyIntegrity ==
    \E chainID \in ChainIDs :
        LET r == VerifyIntegrity(tx, chainID)
        IN  /\ tx' = r.tx
            /\ pre' = [ws |-> ws, tx |-> tx]
            /\ ret' = Result("VerifyIntegrity", chainID, FALSE, r.err, NoExec)
            /\ UNCHANGED <<ws, cp, calls>>
            /\ UNCHANGED <<dpVars, bcVars>>

Next ==
    \/ Checkpoint
    \/ DoCheckTransaction
    \/ DoVerifyExecution
    \/ DoAcceptTransaction
    \/ DoVerifyIntegrity

Spec == Init /\ [][Next]_vars

\* execution alone, over the whole family of transactions
InitExec ==
    /\ ws \in InitWorldStates
    /\ cp = ws
    /\ tx \in ExecTxs
    /\ pre = [ws |-> ws, tx |-> tx]
    /\ ret = Result("init", 0, FALSE, Nil, NoExec)
    /\ calls = 0
    /\ InitDispatcher
    /\ InitChain

NextExec ==
    \/ Checkpoint
    \/ DoVerifyExecution

SpecExec == InitExec /\ [][NextExec]_vars

----------------------------------------------------------------------------
(* The dispatcher: the goroutine of loop(), the producers calling          *)
(* PutMessage, one goroutine calling Register and Deregister, Stop, and    *)
(* the subscribers reading their channels. Each action is one access to    *)
(* shared memory. `hist` records, for the properties, the messages in the  *)
(* order they left receivedMessageCh, the (message, subscriber) pairs      *)
(* whose channel was full, the messages ignored as duplicates, the hashes  *)
(* in the order the cache took them and what each subscriber has read.     *)
(* A subscriber is registered once and deregistered once, Stop is called   *)
(* once, and of the idle producers, which are alike, the first makes the   *)
(* next call.                                                              *)

\* the transaction pipeline at rest
InitTx ==
    /\ ws \in {w \in InitWorldStates :
                  /\ w.balance["a1"] = Uint128Max - 1
                  /\ w.balance["a2"] = 0}
    /\ cp = ws
    /\ tx = EmptyTx
    /\ pre = [ws |-> ws, tx |-> tx]
    /\ ret = Result("init", 0, FALSE, Nil, NoExec)
    /\ calls = 0

Running == crashed = Nil

\* Register, line 56: m, _ := dp.subscribersMap.LoadOrStore(mt, new(sync.Map))
RegisterLoadOrStore ==
    \E s \in Subscribers :
        /\ Running
        /\ adm.pc = "idle"
        /\ s \notin hist.registered
        /\ dp' = [dp EXCEPT !.subscribersMap =
                     IF Load(@, MessageType(s)) = NilMap
                     THEN Store(@, MessageType(s), {}) ELSE @]
        /\ adm' = [pc |-> "Register.Store", s |-> s]
        /\ hist' = [hist EXCEPT !.registered = @ \cup {s}]
        /\ UNCHANGED <<msgChan, loop, producer, crashed, txVars, bcVars>>

\* Register, line 57: m.(*sync.Map).Store(v, true)
RegisterStore ==
    /\ Running
    /\ adm.pc = "Register.Store"
    /\ dp' = [dp EXCEPT !.subscribersMap[MessageType(adm.s)] =
                 @ \cup {adm.s}]
    /\ adm' = [adm EXCEPT !.pc = "Register.filters"]
    /\ UNCHANGED <<msgChan, loop, producer, crashed, hist, txVars, bcVars>>

\* Register, line 58: dp.filters[mt] = v.DoFilter()
RegisterFilters ==
    /\ Running
    /\ adm.pc = "Register.filters"
    /\ dp' = [dp EXCEPT !.filters =
                 Store(@, MessageType(adm.s), DoFilter(adm.s))]
    /\ adm' = [pc |-> "idle", s |-> Nil]
    /\ UNCHANGED <<msgChan, loop, producer, crashed, hist, txVars, bcVars>>

\* Deregister, lines 67-71: the type's map is loaded and, when there is
\* one, the subscriber deleted from it
DeregisterDelete ==
    \E s \in Subscribers :
        /\ Running
        /\ adm.pc = "idle"
        /\ s \notin hist.deregistered
        /\ hist' = [hist EXCEPT !.deregistered = @ \cup {s}]
        /\ IF Load(dp.subscribersMap, MessageType(s)) = NilMap
           THEN UNCHANGED <<dp, adm>>
           ELSE /\ dp' = [dp EXCEPT !.subscribersMap[MessageType(s)] =
                             @ \ {s}]
                /\ adm' = [pc |-> "Deregister.filters", s |-> s]
        /\ UNCHANGED <<msgChan, loop, producer, crashed, txVars, bcVars>>

\* Deregister, line 72: delete(dp.filters, mt)
DeregisterFilters ==
    /\ Running
    /\ adm.pc = "Deregister.filters"
    /\ dp' = [dp EXCEPT !.filters = Delete(@, MessageType(adm.s))]
    /\ adm' = [pc |-> "idle", s |-> Nil]
    /\ UNCHANGED <<msgChan, loop, producer, crashed, hist, txVars, bcVars>>

\* dp.filters is a plain map: a write of it by Register or Deregister that
\* meets a read by PutMessage may end the program with the runtime's
\* "concurrent map read and map write"
ConcurrentMapAccess ==
    /\ Running
    /\ adm.pc \in {"Register.filters", "Deregister.filters"}
    /\ hist.puts < MaxPuts
    /\ \E p \in Producers : producer[p].pc = "idle"
    /\ crashed' = "concurrent map read and map write"
    /\ UNCHANGED <<dp, msgChan, loop, producer, adm, hist, txVars, bcVars>>

\* Start: go dp.loop()
Start ==
    /\ Running
    /\ loop.pc = "new"
    /\ loop' = [loop EXCEPT !.pc = "select"]
    /\ UNCHANGED <<dp, msgChan, producer, adm, crashed, hist, txVars, bcVars>>

\* Stop: dp.quitCh <- true, which blocks while quitCh is full
Stop ==
    /\ Running
    /\ ~hist.stopped
    /\ dp.quitCh < QuitChSize
    /\ dp' = [dp EXCEPT !.quitCh = @ + 1]
    /\ hist' = [hist EXCEPT !.stopped = TRUE]
    /\ UNCHANGED <<msgChan, loop, producer, adm, crashed, txVars, bcVars>>

\* the first of the idle producers
FirstIdle ==
    IF producer["p1"].pc = "idle" THEN "p1" ELSE "p2"

\* PutMessage, lines 121-122: the message's hash and its type's filter flag
PutMessageFilters ==
    \E p \in Producers, k \in MessageKinds :
        /\ Running
        /\ producer[p].pc = "idle"
        /\ p = FirstIdle
        /\ hist.puts < MaxPuts
        /\ producer' = [producer EXCEPT ![p] =
               [pc |-> IF MapRead(dp.filters, k[1])
                       THEN "ContainsOrAdd" ELSE "send",
                msg |-> [type |-> k[1], hash |-> k[2],
                         id |-> hist.puts + 1]]]
        /\ hist' = [hist EXCEPT !.puts = @ + 1]
        /\ UNCHANGED <<dp, msgChan, loop, adm, crashed, txVars, bcVars>>

\* mutant: the call goes on to the send whether the cache held the hash
PutMessageContainsOrAdd_IgnoresExist ==
    \E p \in Producers :
        LET r == ContainsOrAdd(dp.dispatchedMessages, producer[p].msg.hash)
        IN  /\ Running
            /\ producer[p].pc = "ContainsOrAdd"
            /\ dp' = [dp EXCEPT !.dispatchedMessages = r.cache]
            /\ producer' = [producer EXCEPT ![p].pc = "send"]
            /\ hist' = [hist EXCEPT !.added =
                           IF r.exist THEN @
                           ELSE Append(@, producer[p].msg.hash)]
            /\ UNCHANGED <<msgChan, loop, adm, crashed, txVars, bcVars>>

\* PutMessage, lines 123-126: a hash the cache holds ends the call
PutMessageContainsOrAdd ==
    \E p \in Producers :
        LET r == ContainsOrAdd(dp.dispatchedMessages, producer[p].msg.hash)
        IN  /\ Running
            /\ producer[p].pc = "ContainsOrAdd"
            /\ dp' = [dp EXCEPT !.dispatchedMessages = r.cache]
            /\ IF r.exist
               THEN /\ producer' = [producer EXCEPT ![p] =
                           [pc |-> "idle", msg |-> NoMessage]]
                    /\ hist' = [hist EXCEPT !.duplicates =
                                   @ \cup {producer[p].msg}]
               ELSE /\ producer' = [producer EXCEPT ![p].pc = "send"]
                    /\ hist' = [hist EXCEPT !.added =
                                   Append(@, producer[p].msg.hash)]
            /\ UNCHANGED <<msgChan, loop, adm, crashed, txVars, bcVars>>

\* a send on a channel of capacity size: whether it can proceed, and the
\* channel after it
CanSend(ch, size) == Len(ch) < size

Send(ch, msg) == Append(ch, msg)

\* mutant: a send that gives the message up when the channel is full
PutMessageSend_NonBlocking ==
    \E p \in Producers :
        /\ Running
        /\ producer[p].pc = "send"
        /\ dp' = [dp EXCEPT !.receivedMessageCh =
                     IF CanSend(@, ReceivedMessageChSize)
                     THEN Send(@, producer[p].msg) ELSE @]
        /\ producer' = [producer EXCEPT ![p] =
               [pc |-> "idle", msg |-> NoMessage]]
        /\ UNCHANGED <<msgChan, loop, adm, crashed, hist, txVars, bcVars>>

\* PutMessage, line 129: dp.receivedMessageCh <- msg
PutMessageSend ==
    \E p \in Producers :
        /\ Running
        /\ producer[p].pc = "send"
        /\ CanSend(dp.receivedMessageCh, ReceivedMessageChSize)
        /\ dp' = [dp EXCEPT !.receivedMessageCh = Send(@, producer[p].msg)]
        /\ producer' = [producer EXCEPT ![p] =
               [pc |-> "idle", msg |-> NoMessage]]
        /\ UNCHANGED <<msgChan, loop, adm, crashed, hist, txVars, bcVars>>

\* mutant: the sentinel is taken and the loop goes on
LoopQuit_GoesOn ==
    /\ Running
    /\ loop.pc = "select"
    /\ dp.quitCh > 0
    /\ dp' = [dp EXCEPT !.quitCh = @ - 1]
    /\ UNCHANGED <<msgChan, loop, producer, adm, crashed, hist, txVars, bcVars>>

\* loop, lines 88-90: case <-dp.quitCh
LoopQuit ==
    /\ Running
    /\ loop.pc = "select"
    /\ dp.quitCh > 0
    /\ dp' = [dp EXCEPT !.quitCh = @ - 1]
    /\ loop' = [loop EXCEPT !.pc = "returned"]
    /\ UNCHANGED <<msgChan, producer, adm, crashed, hist, txVars, bcVars>>

\* loop, lines 91-97: case msg := <-dp.receivedMessageCh, and the load of
\* the type's subscribers; m.Range on the nil map of a type that has none
\* is a nil pointer dereference
LoopReceive ==
    LET msg == Head(dp.receivedMessageCh)
        m == Load(dp.subscribersMap, msg.type)
    IN  /\ Running
        /\ loop.pc = "select"
        /\ dp.receivedMessageCh # <<>>
        /\ dp' = [dp EXCEPT !.receivedMessageCh = Tail(@)]
        /\ hist' = [hist EXCEPT !.taken = Append(@, msg)]
        /\ IF m = NilMap
           THEN /\ crashed' = "nil pointer dereference"
                /\ loop' = [loop EXCEPT !.msg = msg]
           ELSE /\ loop' = [pc |-> "range", msg |-> msg, atStart |-> m,
                            visited |-> {}]
                /\ UNCHANGED crashed
        /\ UNCHANGED <<msgChan, producer, adm, txVars, bcVars>>

\* the subscribers of the message's type now
Current ==
    IF loop.msg.type \in DOMAIN dp.subscribersMap
    THEN dp.subscribersMap[loop.msg.type] ELSE {}

\* mutant: a full channel gives up its oldest message for the new one
TrySend_Overwrite(ch, msg) ==
    IF CanSend(ch, MsgChanSize) THEN Send(ch, msg)
    ELSE Append(Tail(ch), msg)

\* mutant: the message goes to the front of the channel
TrySend_Front(ch, msg) ==
    IF CanSend(ch, MsgChanSize) THEN <<msg>> \o ch ELSE ch

\* loop, lines 98-104: select { case msgChan <- msg: default: }
TrySend(ch, msg) == IF CanSend(ch, MsgChanSize) THEN Send(ch, msg) ELSE ch

\* loop, lines 97-106: Range calls the function once for a key; a key
\* stored or deleted during the Range may or may not be visited
LoopRange ==
    \E s \in (loop.atStart \cup Current) \ loop.visited :
        /\ Running
        /\ loop.pc = "range"
        /\ msgChan' = [msgChan EXCEPT ![s] = TrySend(@, loop.msg)]
        /\ hist' = [hist EXCEPT !.full =
                       IF CanSend(msgChan[s], MsgChanSize) THEN @
                       ELSE @ \cup {<<loop.msg.id, s>>}]
        /\ loop' = [loop EXCEPT !.visited = @ \cup {s}]
        /\ UNCHANGED <<dp, producer, adm, crashed, txVars, bcVars>>

\* the Range ends once every key that stayed in the map has been visited
LoopRangeDone ==
    /\ Running
    /\ loop.pc = "range"
    /\ (loop.atStart \cap Current) \subseteq loop.visited
    /\ loop' = [pc |-> "select", msg |-> NoMessage, atStart |-> {},
                visited |-> {}]
    /\ UNCHANGED <<dp, msgChan, producer, adm, crashed, hist, txVars, bcVars>>

\* a subscriber reads its channel
Receive ==
    \E s \in Subscribers :
        /\ Running
        /\ msgChan[s] # <<>>
        /\ msgChan' = [msgChan EXCEPT ![s] = Tail(@)]
        /\ hist' = [hist EXCEPT !.recv[s] = Append(@, Head(msgChan[s]))]
        /\ UNCHANGED <<dp, loop, producer, adm, crashed, txVars, bcVars>>

NextDispatch ==
    \/ RegisterLoadOrStore
    \/ RegisterStore
    \/ RegisterFilters
    \/ DeregisterDelete
    \/ DeregisterFilters
    \/ ConcurrentMapAccess
    \/ Start
    \/ Stop
    \/ PutMessageFilters
    \/ PutMessageContainsOrAdd
    \/ PutMessageSend
    \/ LoopQuit
    \/ LoopReceive
    \/ LoopRange
    \/ LoopRangeDone
    \/ Receive

InitDispatch == InitTx /\ InitDispatcher /\ InitChain

SpecDispatch == InitDispatch /\ [][NextDispatch]_vars

\* delivery alone: both subscribers were registered, in either order,
\* before any message is put, and stay registered
Registered(last) ==
    [NewDispatcher EXCEPT
        !.subscribersMap = Store(@, "block", Subscribers),
        !.filters = Store(@, "block", DoFilter(last))]

InitDeliver ==
    /\ InitTx
    /\ InitChain
    /\ dp \in {Registered(s) : s \in Subscribers}
    /\ msgChan = [s \in Subscribers |-> <<>>]
    /\ loop = [pc |-> "new", msg |-> NoMessage, atStart |-> {},
               visited |-> {}]
    /\ producer = [p \in Producers |-> [pc |-> "idle", msg |-> NoMessage]]
    /\ adm = [pc |-> "idle", s |-> Nil]
    /\ crashed = Nil
    /\ hist = [puts |-> 0, stopped |-> FALSE, registered |-> Subscribers,
               deregistered |-> {},
               taken |-> <<>>, full |-> {}, duplicates |-> {},
               added |-> <<>>,
               recv |-> [s \in Subscribers |-> <<>>]]

NextDeliver ==
    \/ Start
    \/ Stop
    \/ PutMessageFilters
    \/ PutMessageContainsOrAdd
    \/ PutMessageSend
    \/ LoopQuit
    \/ LoopReceive
    \/ LoopRange
    \/ LoopRangeDone
    \/ Receive

SpecDeliver == InitDeliver /\ [][NextDeliver]_vars

\* the goroutine of loop() is scheduled again and again, and a select with
\* several cases ready picks among them at random, so that the quit case,
\* ready again and again, is taken in the end
LoopStep == LoopQuit \/ LoopReceive \/ LoopRange \/ LoopRangeDone

SpecDeliverLive ==
    SpecDeliver /\ WF_vars(LoopStep) /\ SF_vars(LoopQuit)

\* registration at work: s1 was the last to register, alone or after s2,
\* and the loop is started; whoever is not registered yet is registered,
\* both are deregistered, and messages are put and dispatched meanwhile, to
\* subscribers that do not read
InitAdmin ==
    /\ InitTx
    /\ InitChain
    /\ dp \in {[NewDispatcher EXCEPT
                   !.subscribersMap = Store(@, MessageType("s1"), S),
                   !.filters = Store(@, MessageType("s1"), DoFilter("s1"))] :
                  S \in {{"s1"}, Subscribers}}
    /\ msgChan = [s \in Subscribers |-> <<>>]
    /\ loop = [pc |-> "select", msg |-> NoMessage, atStart |-> {},
               visited |-> {}]
    /\ producer = [p \in Producers |-> [pc |-> "idle", msg |-> NoMessage]]
    /\ adm = [pc |-> "idle", s |-> Nil]
    /\ crashed = Nil
    /\ hist = [puts |-> 0, stopped |-> FALSE,
               registered |-> dp.subscribersMap[MessageType("s1")],
               deregistered |-> {},
               taken |-> <<>>, full |-> {}, duplicates |-> {},
               added |-> <<>>,
               recv |-> [s \in Subscribers |-> <<>>]]

NextAdmin ==
    \/ RegisterLoadOrStore
    \/ RegisterStore
    \/ RegisterFilters
    \/ DeregisterDelete
    \/ DeregisterFilters
    \/ ConcurrentMapAccess
    \/ PutMessageFilters
    \/ PutMessageContainsOrAdd
    \/ PutMessageSend
    \/ LoopReceive
    \/ LoopRange
    \/ LoopRangeDone

SpecAdmin == InitAdmin /\ [][NextAdmin]_vars

----------------------------------------------------------------------------
(* The block chain: blocks are pushed onto any block of the tree, the      *)
(* fork choice moves the tail to any block of the tree, and the queries    *)
(* are asked in between; `query` holds the last call and what it returned. *)

\* the gas prices of the transactions of a pushed block
BlockBodies == {<<>>, <<TransactionGasPrice, TransactionGasPrice - 1>>}

\* the numbers of descendants asked for
FetchCounts == {1, 3, 10}

Push ==
    /\ Len(bc.blocks) < MaxBlocks
    /\ \E parent \in Blocks(bc), txs \in BlockBodies :
          /\ bc' = Attach(bc, parent, txs)
          /\ query' = [NoQuery EXCEPT !.op = "Push", !.arg = parent,
                                      !.block = Len(bc.blocks) + 1]
    /\ UNCHANGED <<txVars, dpVars>>

DoSetTailBlock ==
    /\ \E b \in Blocks(bc) \ {bc.tailBlock} :
          /\ bc' = SetTailBlock(bc, b)
          /\ query' = [NoQuery EXCEPT !.op = "SetTailBlock", !.arg = b,
                                      !.block = bc.tailBlock]
    /\ UNCHANGED <<txVars, dpVars>>

DoFindCommonAncestorWithTail ==
    /\ \E b \in Blocks(bc) :
          LET r == FindCommonAncestorWithTail(bc, b)
          IN  query' = [NoQuery EXCEPT
                           !.op = "FindCommonAncestorWithTail", !.arg = b,
                           !.block = r.block, !.err = r.err]
    /\ UNCHANGED <<txVars, dpVars, bc>>

DoFetchDescendantInCanonicalChain ==
    /\ \E n \in FetchCounts, from \in Blocks(bc) :
          LET r == FetchDescendantInCanonicalChain(bc, n, from)
          IN  query' = [NoQuery EXCEPT
                           !.op = "FetchDescendantInCanonicalChain",
                           !.arg = from, !.n = n,
                           !.blocks = r.blocks, !.err = r.err]
    /\ UNCHANGED <<txVars, dpVars, bc>>

DoDetachedTailBlocks ==
    /\ query' = [NoQuery EXCEPT !.op = "DetachedTailBlocks",
                                !.tails = DetachedTailBlocks(bc)]
    /\ UNCHANGED <<txVars, dpVars, bc>>

DoGasPrice ==
    /\ query' = [NoQuery EXCEPT !.op = "GasPrice",
                                !.gasPrice = GasPrice(bc)]
    /\ UNCHANGED <<txVars, dpVars, bc>>

NextChain ==
    \/ Push
    \/ DoSetTailBlock
    \/ DoFindCommonAncestorWithTail
    \/ DoFetchDescendantInCanonicalChain
    \/ DoDetachedTailBlocks
    \/ DoGasPrice

InitChainOnly == InitTx /\ InitDispatcher /\ InitChain

SpecChain == InitChainOnly /\ [][NextChain]_vars

----------------------------------------------------------------------------
(* The data model: a transaction is made by NewTransaction, signed, has a  *)
(* field assigned by code of the package, is verified, and goes over the   *)
(* wire and back; `tx` is the transaction held, `pre.tx` the one before    *)
(* the last call and `ret` the call, its argument and its error.           *)

\* a payload one byte over MaxDataPayLoadLength
LongPayload == [i \in 1..(MaxDataPayLoadLength + 1) |-> 0]

\* the arguments of NewTransaction: (from, to, value, payload, gasPrice,
\* gasLimit), nil and zero among them
NewTransactionArgs ==
    {"a1", Nil} \X Addr \X {NilUint128, 0, Uint128Max}
        \X {<<>>, <<0>>, LongPayload}
        \X {NilUint128, 0, 1, Uint128Max}
        \X {NilUint128, 0, MinGasCountPerTransaction}

\* what a message met on its way
Alterations ==
    {"intact", "nil", "From", "Value", "no Data", "long Data", "GasPrice",
     "GasLimit", "no GasLimit"}

\* the message as it is decoded: as ToProto made it, or with one field
\* another sender could have put there
Received(m, alteration) ==
    CASE alteration = "intact" -> m
      [] alteration = "nil" -> NilMsg
      [] alteration = "From" -> [m EXCEPT !.From = "a3"]
      [] alteration = "Value" -> [m EXCEPT !.Value = <<0>>]
      [] alteration = "no Data" -> [m EXCEPT !.Data = NilData]
      [] alteration = "long Data" ->
            [m EXCEPT !.Data = [type |-> TxPayloadBinaryType,
                                payload |-> LongPayload]]
      [] alteration = "GasPrice" ->
            [m EXCEPT !.GasPrice = ToFixedSizeByteSlice(0).v]
      [] alteration = "GasLimit" ->
            [m EXCEPT !.GasLimit = ToFixedSizeByteSlice(0).v]
      [] alteration = "no GasLimit" -> [m EXCEPT !.GasLimit = <<>>]

\* the sender holds a transaction
Held == tx # NilTx /\ ret.op # "FromProto"

InitData ==
    /\ ws \in {w \in InitWorldStates :
                  /\ w.balance["a1"] = Uint128Max - 1
                  /\ w.balance["a2"] = 0}
    /\ cp = ws
    /\ tx = NilTx
    /\ pre = [ws |-> ws, tx |-> tx]
    /\ ret = Result("init", 0, FALSE, Nil, NoExec)
    /\ calls = 0
    /\ InitDispatcher
    /\ InitChain

DoNewTransaction ==
    /\ ret.op = "init"
    /\ \E a \in NewTransactionArgs :
          LET r == NewTransaction(1, a[1], a[2], a[3], 1,
                                  TxPayloadBinaryType, a[4], a[5], a[6], 1)
          IN  /\ tx' = r.tx
              /\ pre' = [ws |-> ws, tx |-> tx]
              /\ ret' = Result("NewTransaction",
                               [from |-> a[1], value |-> a[3],
                                len |-> Len(a[4]), gasPrice |-> a[5],
                                gasLimit |-> a[6]],
                               FALSE, r.err, NoExec)
    /\ UNCHANGED <<ws, cp, calls>>
    /\ UNCHANGED <<dpVars, bcVars>>

DoSign ==
    /\ Held
    /\ \E signer \in Addr \cup {Nil} :
          LET r == Sign(tx, signer)
          IN  /\ tx' = r.tx
              /\ pre' = [ws |-> ws, tx |-> tx]
              /\ ret' = Result("Sign", signer, FALSE, r.err, NoExec)
    /\ UNCHANGED <<ws, cp, calls>>
    /\ UNCHANGED <<dpVars, bcVars>>

\* an assignment to a field of the transaction, as SimulateExecution's to
\* gasLimit
Assign ==
    /\ Held
    /\ \E t \in {[tx EXCEPT !.nonce = (tx.nonce % MaxNonce) + 1],
                 [tx EXCEPT !.gasLimit = Uint128Max]} :
          /\ t # tx
          /\ tx' = t
    /\ pre' = [ws |-> ws, tx |-> tx]
    /\ ret' = Result("assign", 0, FALSE, Nil, NoExec)
    /\ UNCHANGED <<ws, cp, calls>>
    /\ UNCHANGED <<dpVars, bcVars>>

\* ToProto on the sender's side, FromProto into new(Transaction) on the
\* receiver's
DoFromProto ==
    /\ Held
    /\ ToProto(tx).err = Nil
    /\ \E alteration \in Alterations :
          LET r == FromProto(EmptyTx, Received(ToProto(tx).msg, alteration))
          IN  /\ tx' = r.tx
              /\ pre' = [ws |-> ws, tx |-> tx]
              /\ ret' = Result("FromProto", alteration, FALSE, r.err, NoExec)
    /\ UNCHANGED <<ws, cp, calls>>
    /\ UNCHANGED <<dpVars, bcVars>>

NextData ==
    \/ DoNewTransaction
    \/ DoSign
    \/ Assign
    \/ DoFromProto
    \/ (Held /\ DoVerifyIntegrity)

SpecData == InitData /\ [][NextData]_vars

----------------------------------------------------------------------------
(* Contract checks: events are recorded under the hash of the deploying    *)
(* transaction, and CheckContract is called in between.                    *)

\* the events a transaction leaves: its execution result, with either
\* status, one whose data is no TransactionEvent, and one of another topic
BirthEvents ==
    {[Topic |-> TopicTransactionExecutionResult,
      Data |-> [Hash |-> <<"deploy">>, Status |-> status,
                GasUsed |-> Uint128String(MinGasCountPerTransaction),
                Error |-> IF status = TxExecutionFailed
                          THEN ErrExecutionFailed ELSE ""]] :
        status \in {TxExecutionSuccess, TxExecutionFailed}}
    \cup {[Topic |-> TopicTransactionExecutionResult,
           Data |-> [Text |-> "{"]],
          [Topic |-> "chain.contract", Data |-> [Text |-> ""]]}

DoRecordEvent ==
    /\ Len(ws.events) < MaxEvents
    /\ \E event \in BirthEvents :
          ws' = RecordEvent(ws, <<"deploy">>, event, NoFailure).ws
    /\ pre' = [ws |-> ws, tx |-> tx]
    /\ ret' = Result("RecordEvent", 0, FALSE, Nil, NoExec)
    /\ UNCHANGED <<cp, tx, calls>>
    /\ UNCHANGED <<dpVars, bcVars>>

DoCheckContract ==
    /\ \E addr \in Addr, f \in {NoFailure, "GetContractAccount",
                                "FetchEvents"} :
          LET r == CheckContract(addr, ws, f)
          IN  ret' = Result("CheckContract",
                            [addr |-> addr, contract |-> r.contract],
                            FALSE, r.err, NoExec)
    /\ pre' = [ws |-> ws, tx |-> tx]
    /\ UNCHANGED <<ws, cp, tx, calls>>
    /\ UNCHANGED <<dpVars, bcVars>>

NextContract ==
    \/ DoRecordEvent
    \/ DoCheckContract

SpecContract == InitData /\ [][NextContract]_vars

----------------------------------------------------------------------------
(* Simulation: a transaction is simulated on the canonical world-state     *)
(* `ws`, and verified before and after; `ret.arg` holds the gas and the     *)
(* result returned and the world-state the simulation left in its block.   *)

DoSimulateExecution ==
    /\ calls < MaxCalls
    /\ \E f \in {NoFailure, "simulate.to", "checkBalance"} :
       \E x \in ExecOutcomes(tx.data.type) :
       \E e \in {EstimateGas(tx, ws, f, x)} :
            /\ ws' = e.canonical
            /\ tx' = e.sim.tx
            /\ pre' = [ws |-> ws, tx |-> tx]
            /\ ret' = Result("SimulateExecution",
                             [gasUsed |-> e.sim.gasUsed,
                              result |-> e.sim.result,
                              exeErr |-> e.sim.exeErr,
                              block |-> e.sim.ws],
                             FALSE, e.sim.err, x)
            /\ calls' = calls + 1
            /\ UNCHANGED cp
            /\ UNCHANGED <<dpVars, bcVars>>

NextSimulate ==
    \/ DoSimulateExecution
    \/ DoVerifyIntegrity

SpecSimulate == InitExec /\ [][NextSimulate]_vars

----------------------------------------------------------------------------
(* Vocabulary of the properties *)

Called(op) == ret.op = op

\* the call met no failing world-state operation
NoIOError == ret.err # ErrIO

\* g0 = GasCountOfTxBase and g1 = g0 + payload.BaseGasCount, as numbers
G0(t) == MinGasCountPerTransaction + Len(t.data.payload) * GasCountPerByte

G1(t) == G0(t) + (IF t.data.type = TxPayloadBinaryType THEN 0
                  ELSE ContractBaseGas)

\* steps 1 and 2 of VerifyExecution pass on the world-state w
PassesPrechecks(t, w) ==
    /\ MinBalanceRequired(t).err = Nil
    /\ w.balance[t.from] >= t.gasPrice * t.gasLimit + t.value
    /\ G0(t) <= t.gasLimit

\* the payload ran, and the gas it reports keeps the total a Uint128
Ran == ret.exec.ran /\ G1(tx) + ret.exec.gas <= Uint128Max

GTotal == G1(tx) + ret.exec.gas

RECURSIVE DecimalValue(_)
DecimalValue(ds) ==
    IF ds = <<>> THEN 0
    ELSE 10 * DecimalValue(SubSeq(ds, 1, Len(ds) - 1)) + ds[Len(ds)]

LastEvent == ws.events[Len(ws.events)]

\* ws is `base` with gasPrice * gasCnt more recorded against tx.from and one
\* more event, the result event of tx with that status, gas_used and error
GasAndEventOn(base, gasCnt, status, error) ==
    /\ ws.gasConsumed = [base.gasConsumed EXCEPT
                            ![tx.from] = @ + tx.gasPrice * gasCnt]
    /\ Len(ws.events) = Len(base.events) + 1
    /\ SubSeq(ws.events, 1, Len(base.events)) = base.events
    /\ LastEvent.txHash = tx.hash
    /\ LastEvent.event.Topic = TopicTransactionExecutionResult
    /\ LastEvent.event.Data.Hash = tx.hash
    /\ LastEvent.event.Data.Status = status
    /\ DecimalValue(LastEvent.event.Data.GasUsed) = gasCnt
    /\ LastEvent.event.Data.Error = error

\* and nothing else differs from `base`
AccountedOn(base, gasCnt, status, error) ==
    /\ ws.balance = base.balance
    /\ ws.nonce = base.nonce
    /\ ws.txs = base.txs
    /\ GasAndEventOn(base, gasCnt, status, error)

OnChain == ret.giveback = FALSE /\ ret.err = Nil

----------------------------------------------------------------------------
(* Properties of VerifyExecution, checked under SpecExec *)

\* C1: when the from account loads, VerifyExecution returns
\* (false, ErrInsufficientBalance) if the balance is below
\* gasPrice * gasLimit + value, otherwise (false, ErrOutOfGasLimit) if
\* GasCountOfTxBase exceeds gasLimit; in both cases the world-state is left
\* as it was: no gas, no event, no balance change.
C1_RejectedBeforeWorldState ==
    (Called("VerifyExecution") /\ NoIOError
        /\ MinBalanceRequired(tx).err = Nil) =>
        LET required == tx.gasPrice * tx.gasLimit + tx.value
            balance == pre.ws.balance[tx.from]
        IN  /\ balance < required =>
                /\ ret.giveback = FALSE
                /\ ret.err = ErrInsufficientBalance
                /\ ws = pre.ws
            /\ (balance >= required /\ G0(tx) > tx.gasLimit) =>
                /\ ret.giveback = FALSE
                /\ ret.err = ErrOutOfGasLimit
                /\ ws = pre.ws

\* both rejections apply and the balance one is reported
C1_Witness ==
    /\ Called("VerifyExecution")
    /\ MinBalanceRequired(tx).err = Nil
    /\ pre.ws.balance[tx.from] < tx.gasPrice * tx.gasLimit + tx.value
    /\ G0(tx) > tx.gasLimit
    /\ ret.err = ErrInsufficientBalance
    /\ ws = pre.ws

\* C2: when the payload executes and g1 + gasExecution exceeds gasLimit,
\* the world-state is reset (the value transfer undone), gas gasLimit is
\* recorded, a failure event with ErrOutOfGasLimit and gas_used = gasLimit
\* is recorded, and VerifyExecution returns (false, nil).
C2_OutOfGasAfterExecution ==
    (Called("VerifyExecution") /\ NoIOError /\ Ran
        /\ GTotal > tx.gasLimit) =>
        /\ OnChain
        /\ AccountedOn(pre.ws, tx.gasLimit, TxExecutionFailed,
                       ErrOutOfGasLimit)

\* a paying transaction ran out of gas in the payload and the payment is gone
C2_Witness ==
    /\ Called("VerifyExecution") /\ NoIOError /\ Ran
    /\ GTotal > tx.gasLimit
    /\ ret.exec.err = Nil
    /\ tx.value > 0 /\ tx.from # tx.to
    /\ ws.balance = pre.ws.balance
    /\ LastEvent.event.Data.Error = ErrOutOfGasLimit

\* C3: within the gas limit, a payload that fails leaves the world-state of
\* the checkpoint plus gas gTotal and a failure event with gas_used = gTotal
\* and the error string; a payload that succeeds leaves gas gTotal, a success
\* event and the value transfer; both return (false, nil).
C3_ExecutionResult ==
    (Called("VerifyExecution") /\ NoIOError /\ Ran
        /\ GTotal <= tx.gasLimit) =>
        /\ OnChain
        /\ ret.exec.err # Nil =>
                AccountedOn(pre.ws, GTotal, TxExecutionFailed, ret.exec.err)
        /\ ret.exec.err = Nil =>
            /\ GasAndEventOn(pre.ws, GTotal, TxExecutionSuccess, "")
            /\ ret.exec.d = 0 =>
                /\ ws.balance[tx.from] = pre.ws.balance[tx.from]
                        - (IF tx.from # tx.to THEN tx.value ELSE 0)
                /\ ws.balance[Other(tx.from)] = pre.ws.balance[Other(tx.from)]
                        + (IF tx.from # tx.to THEN tx.value ELSE 0)

\* the payload failed after moving funds, and transfer and move are undone
C3_Witness ==
    /\ Called("VerifyExecution") /\ NoIOError /\ Ran
    /\ GTotal <= tx.gasLimit
    /\ ret.exec.err # Nil /\ ret.exec.d > 0
    /\ tx.value > 0 /\ tx.from # tx.to
    /\ ws.balance = pre.ws.balance
    /\ LastEvent.event.Data.Status = TxExecutionFailed

\* C4: when steps 1 and 2 pass and the payload does not load (unknown type
\* or bytes that do not parse), gas g0 and a failure event are recorded,
\* nothing is transferred or executed, and (false, nil) is returned.
C4_PayloadLoadFailure ==
    (Called("VerifyExecution") /\ NoIOError
        /\ PassesPrechecks(tx, pre.ws)
        /\ (\/ tx.data.type \notin {TxPayloadBinaryType, TxPayloadDeployType,
                                    TxPayloadCallType}
            \/ LoadPayload(tx).err # Nil)) =>
        /\ OnChain
        /\ ~ret.exec.ran
        /\ AccountedOn(pre.ws, G0(tx), TxExecutionFailed,
                       IF tx.data.type \in {TxPayloadBinaryType,
                                            TxPayloadDeployType,
                                            TxPayloadCallType}
                       THEN ErrInvalidPayload ELSE ErrInvalidTxPayloadType)

\* a call payload that does not parse, on a paying transaction
C4_Witness ==
    /\ Called("VerifyExecution") /\ NoIOError
    /\ PassesPrechecks(tx, pre.ws)
    /\ tx.data.type = TxPayloadCallType /\ LoadPayload(tx).err # Nil
    /\ tx.value > 0 /\ tx.from # tx.to
    /\ ws.balance = pre.ws.balance
    /\ Len(ws.events) = Len(pre.ws.events) + 1

\* C5: when the payload loads and g1 exceeds gasLimit, gas gasLimit and an
\* ErrOutOfGasLimit failure event are recorded, nothing is transferred or
\* executed, and (false, nil) is returned.
C5_PayloadBaseGas ==
    (Called("VerifyExecution") /\ NoIOError
        /\ PassesPrechecks(tx, pre.ws)
        /\ LoadPayload(tx).err = Nil
        /\ G1(tx) > tx.gasLimit) =>
        /\ OnChain
        /\ ~ret.exec.ran
        /\ AccountedOn(pre.ws, tx.gasLimit, TxExecutionFailed,
                       ErrOutOfGasLimit)

C5_Witness ==
    /\ Called("VerifyExecution") /\ NoIOError
    /\ PassesPrechecks(tx, pre.ws)
    /\ LoadPayload(tx).err = Nil
    /\ G1(tx) > tx.gasLimit
    /\ tx.value > 0 /\ tx.from # tx.to
    /\ ws.balance = pre.ws.balance
    /\ ws.gasConsumed[tx.from] =
            pre.ws.gasConsumed[tx.from] + tx.gasPrice * tx.gasLimit

\* C6: VerifyExecution returns giveback = true exactly when a world-state
\* operation (account load, Reset, RecordGas, RecordEvent) failed, and
\* giveback = false on every other return.
C6_GivebackIffIOError ==
    Called("VerifyExecution") => (ret.giveback = TRUE <=> ret.err = ErrIO)

\* what VerifyExecution added to the gas recorded against tx.from, and took
\* from its balance
Charged == ws.gasConsumed[tx.from] - pre.ws.gasConsumed[tx.from]

Spent == pre.ws.balance[tx.from] - ws.balance[tx.from]

RecordedGas == Charged \div tx.gasPrice

\* VerifyExecution recorded gas
GasRecorded ==
    Called("VerifyExecution") /\ ws.gasConsumed # pre.ws.gasConsumed

\* the payload ran to its end within the gas limit
Succeeded == Ran /\ ret.exec.err = Nil /\ GTotal <= tx.gasLimit

\* the payload moved no funds of its own that outlast the call
NoPayloadTransfer == Succeeded => ret.exec.d = 0

----------------------------------------------------------------------------
(* Properties of admission and integrity, checked under Spec *)

\* C8: when the from account loads, CheckTransaction returns
\* (false, ErrSmallTransactionNonce) for a nonce below currentNonce + 1,
\* (true, ErrLargeTransactionNonce) for one above, (false, nil) for the
\* successor itself; it never changes the world-state.
C8_NonceAdmission ==
    Called("CheckTransaction") =>
        /\ ws = pre.ws
        /\ NoIOError =>
            LET currentNonce == pre.ws.nonce[tx.from]
            IN  /\ tx.nonce < currentNonce + 1 =>
                    ret.giveback = FALSE /\ ret.err = ErrSmallTransactionNonce
                /\ tx.nonce > currentNonce + 1 =>
                    ret.giveback = TRUE /\ ret.err = ErrLargeTransactionNonce
                /\ tx.nonce = currentNonce + 1 =>
                    ret.giveback = FALSE /\ ret.err = Nil

\* a nonce two ahead of the account's is given back
C8_Witness ==
    /\ Called("CheckTransaction")
    /\ tx.nonce = pre.ws.nonce[tx.from] + 2
    /\ ret.giveback = TRUE
    /\ ret.err = ErrLargeTransactionNonce

\* the transaction stored under hash h, decoded as GetTransaction does
StoredUnder(h) ==
    {FromProto(EmptyTx, p[2][2]).tx : p \in {q \in ws.txs : q[1] = h}}

\* C9: a successful AcceptTransaction stores the serialized transaction
\* under tx.hash and raises the nonce of tx.from by exactly one, no other
\* nonce changing; a call of CheckTransaction, VerifyExecution or
\* AcceptTransaction that returns an error leaves every nonce as it was.
C9_NonceAccounting ==
    /\ (Called("AcceptTransaction") /\ ret.err = Nil) =>
        /\ ws.nonce = [pre.ws.nonce EXCEPT ![tx.from] = @ + 1]
        /\ StoredUnder(tx.hash) = {tx}
    /\ (ret.op \in {"CheckTransaction", "VerifyExecution",
                    "AcceptTransaction"} /\ ret.err # Nil) =>
        ws.nonce = pre.ws.nonce

\* after an execution, the second acceptance for the account
C9_Witness ==
    /\ Called("AcceptTransaction") /\ ret.err = Nil
    /\ calls > 0
    /\ pre.ws.nonce[tx.from] = 1
    /\ ws.nonce[tx.from] = 2
    /\ StoredUnder(tx.hash) = {tx}

\* C10: VerifyIntegrity(chainID) reports the first failure in the order
\* chain ID, hash, signer: ErrInvalidChainID whenever the chain IDs differ,
\* else ErrInvalidTransactionHash whenever the recomputed hash differs from
\* tx.hash, else ErrInvalidTransactionSigner when the recovered signer is
\* not tx.from; nil only when all three hold; the transaction is unchanged.
C10_IntegrityOrder ==
    Called("VerifyIntegrity") =>
        LET chainOK == tx.chainID = ret.arg
            hashOK == calHash(tx).v = tx.hash
            signer == RecoverSignerFromSignature(tx.alg, tx.hash, tx.sign)
        IN  /\ tx = pre.tx
            /\ ~chainOK => ret.err = ErrInvalidChainID
            /\ (chainOK /\ ~hashOK) => ret.err = ErrInvalidTransactionHash
            /\ (chainOK /\ hashOK /\ signer.err = Nil
                    /\ signer.v # tx.from) =>
                ret.err = ErrInvalidTransactionSigner
            /\ ret.err = Nil =>
                (chainOK /\ hashOK /\ signer.err = Nil
                    /\ signer.v = tx.from)

\* chain ID, hash and signer are all wrong, and the chain ID is reported
C10_Witness ==
    /\ Called("VerifyIntegrity")
    /\ tx.chainID # ret.arg
    /\ calHash(tx).v # tx.hash
    /\ tx.sign # <<>> /\ tx.sign.key # tx.from
    /\ ret.err = ErrInvalidChainID

----------------------------------------------------------------------------
(* Properties of the dispatcher, checked under SpecDeliver *)

\* everything sent to subscriber s so far, in the order of the sends
Sent(s) == hist.recv[s] \o msgChan[s]

Count(m, seq) == Cardinality({i \in DOMAIN seq : seq[i] = m})

RECURSIVE IsSubsequence(_, _)
IsSubsequence(a, b) ==
    IF a = <<>> THEN TRUE
    ELSE IF b = <<>> THEN FALSE
    ELSE IF Head(a) = Head(b) THEN IsSubsequence(Tail(a), Tail(b))
    ELSE IsSubsequence(a, Tail(b))

\* the loop has made its attempt to send m to s
Attempted(m, s) ==
    /\ crashed = Nil \/ loop.msg # m
    /\ ~(loop.pc = "range" /\ loop.msg = m /\ s \notin loop.visited)

\* C11: a message the loop has taken is sent exactly once to every
\* subscriber of its type whose channel was not full at the attempt, not
\* at all to a subscriber whose channel was full then or whose type is
\* another, whatever the other subscribers' channels held; and nothing is
\* sent that was not taken.
C11_DeliveredOncePerSubscriber ==
    /\ \A i \in DOMAIN hist.taken : \A s \in Subscribers :
        LET m == hist.taken[i]
        IN  Count(m, Sent(s)) =
                IF /\ MessageType(s) = m.type
                   /\ Attempted(m, s)
                   /\ <<m.id, s>> \notin hist.full
                THEN 1 ELSE 0
    /\ \A s \in Subscribers : \A j \in DOMAIN Sent(s) :
        Count(Sent(s)[j], hist.taken) = 1

\* a finished dispatch that one subscriber missed, its channel being full,
\* and the other got
C11_Witness ==
    /\ loop.pc = "select"
    /\ \E i \in DOMAIN hist.taken :
        /\ <<hist.taken[i].id, "s1">> \in hist.full
        /\ Count(hist.taken[i], Sent("s1")) = 0
        /\ Count(hist.taken[i], Sent("s2")) = 1

\* the messages that went past the filter
InFlight(pcs) ==
    {producer[p].msg : p \in {q \in Producers : producer[q].pc \in pcs}}

Enqueued ==
    {dp.receivedMessageCh[i] : i \in DOMAIN dp.receivedMessageCh}
        \cup {hist.taken[i] : i \in DOMAIN hist.taken}

Filtered(m) == MapRead(dp.filters, m.type)

\* C12: with the type's filter flag set, a message goes on to the input
\* channel only when the cache does not hold its hash, which the cache then
\* records: one message goes on per recorded hash, a hash is recorded
\* again only after DispatchedMessagesSize other hashes pushed it out, and a
\* message ignored as duplicate had its hash recorded before. With the flag
\* not set no message is ignored and the cache is not used.
C12_DedupAtIngress ==
    /\ \A p \in Producers :
        producer[p].pc = "ContainsOrAdd" => Filtered(producer[p].msg)
    /\ \A m \in hist.duplicates :
        /\ Filtered(m)
        /\ Count(m.hash, hist.added) > 0
    /\ Cardinality({m \in InFlight({"send"}) \cup Enqueued : Filtered(m)})
            = Len(hist.added)
    /\ \A i, j \in DOMAIN hist.added :
        (i < j /\ hist.added[i] = hist.added[j]) =>
            Cardinality({hist.added[k] : k \in (i + 1)..(j - 1)})
                >= DispatchedMessagesSize
    /\ \A i \in DOMAIN dp.dispatchedMessages :
        dp.dispatchedMessages[i] =
            hist.added[Len(hist.added) - Len(dp.dispatchedMessages) + i]

\* of two calls under way with the same hash, the later was ignored while
\* the earlier still waits to send
C12_Witness ==
    \E p \in Producers : \E d \in hist.duplicates :
        /\ producer[p].pc = "send"
        /\ producer[p].msg.hash = d.hash
        /\ producer[p].msg.id < d.id

\* C13: what a subscriber was sent, in the order of its channel, is a
\* subsequence of the messages in the order they left the input channel:
\* messages may be missing, none is out of order or sent twice.
C13_PerSubscriberOrder ==
    \A s \in Subscribers :
        /\ IsSubsequence(Sent(s), hist.taken)
        /\ \A j \in DOMAIN Sent(s) : Count(Sent(s)[j], Sent(s)) = 1

\* a subscriber has been sent two messages and missed a third
C13_Witness ==
    \E s \in Subscribers :
        /\ Len(Sent(s)) = 2
        /\ Len(hist.recv[s]) > 0
        /\ \E i \in DOMAIN hist.taken : <<hist.taken[i].id, s>> \in hist.full

\* C15: a message that is no duplicate is never given up: every message put
\* is with its caller, ignored as duplicate, in the input channel or taken
\* by the loop, in exactly one of these; the channel never holds more than
\* its capacity; a caller with a message to send proceeds exactly when the
\* channel is not full, and the duplicate check never waits.
C15_Backpressure ==
    LET calling == InFlight({"ContainsOrAdd", "send"})
        ids(set) == {m.id : m \in set}
    IN  /\ ids(calling) \cup ids(hist.duplicates) \cup ids(Enqueued)
                = 1..hist.puts
        /\ Cardinality(calling) + Cardinality(hist.duplicates)
                + Len(dp.receivedMessageCh) + Len(hist.taken) = hist.puts
        /\ Len(dp.receivedMessageCh) <= ReceivedMessageChSize
        /\ Running =>
            /\ ENABLED PutMessageSend <=>
                /\ InFlight({"send"}) # {}
                /\ Len(dp.receivedMessageCh) < ReceivedMessageChSize
            /\ InFlight({"ContainsOrAdd"}) # {} =>
                ENABLED PutMessageContainsOrAdd

\* a caller waits with its message while the channel is full
C15_Witness ==
    /\ Running
    /\ Len(dp.receivedMessageCh) = ReceivedMessageChSize
    /\ InFlight({"send"}) # {}
    /\ ~ENABLED PutMessageSend

\* the loop has returned, or the program has ended
Terminated == loop.pc = "returned" \/ crashed # Nil

\* C14: once Stop has put the sentinel on quitCh the started loop
\* terminates, whatever the input channel holds; it returns between two
\* messages, and after that it takes no message and no subscriber is sent
\* anything.
C14_StopTerminatesLoop ==
    /\ (hist.stopped /\ loop.pc # "new") ~> Terminated
    /\ [](loop.pc = "returned" => loop.msg = NoMessage)
    /\ [][loop.pc = "returned" =>
            /\ loop' = loop
            /\ hist.taken' = hist.taken
            /\ \A s \in Subscribers : Sent(s)' = Sent(s)]_vars

\* the loop has returned on the sentinel with a message left in the input
\* channel and a producer waiting to add another
C14_Witness ==
    /\ hist.stopped
    /\ loop.pc = "returned"
    /\ dp.quitCh = 0
    /\ Len(dp.receivedMessageCh) = ReceivedMessageChSize
    /\ InFlight({"send"}) # {}

----------------------------------------------------------------------------
(* Properties of the block chain, checked under SpecChain *)

\* b and the blocks on its path from genesis
RECURSIVE Ancestors(_, _)
Ancestors(c, b) ==
    IF b = genesisBlock THEN {b}
    ELSE {b} \cup Ancestors(c, ParentOf(c, b))

OnCanonicalChain(b) == b \in Ancestors(bc, bc.tailBlock)

Leaves(c) == {b \in Blocks(c) : \A x \in Blocks(c) : ParentOf(c, x) # b}

Asked(op) == query.op = op

\* C16: FindCommonAncestorWithTail(b) returns, without error, the block of
\* greatest height that lies on the path from genesis to b and on the path
\* from genesis to the tail; it is b itself when b is on the canonical chain
C16_DeepestCommonAncestor ==
    Asked("FindCommonAncestorWithTail") =>
        LET common == Ancestors(bc, query.arg)
                          \cap Ancestors(bc, bc.tailBlock)
        IN  /\ query.err = Nil
            /\ query.block \in common
            /\ \A x \in common : HeightOf(bc, x) <= HeightOf(bc, query.block)
            /\ OnCanonicalChain(query.arg) => query.block = query.arg

\* the question is asked about a block of a fork that left the canonical
\* chain above genesis
C16_Witness ==
    /\ Asked("FindCommonAncestorWithTail")
    /\ ~OnCanonicalChain(query.arg)
    /\ bc.tailBlock \notin Ancestors(bc, query.arg)
    /\ query.block \notin {genesisBlock, NoBlock}

C18_FetchDescendants ==
    Asked("FetchDescendantInCanonicalChain") =>
        IF OnCanonicalChain(query.arg)
        THEN /\ query.err = Nil
             /\ Len(query.blocks) =
                    Min(query.n, HeightOf(bc, bc.tailBlock)
                                     - HeightOf(bc, query.arg))
             /\ \A i \in 1..Len(query.blocks) :
                    /\ OnCanonicalChain(query.blocks[i])
                    /\ HeightOf(bc, query.blocks[i])
                           = HeightOf(bc, query.arg) + i
             /\ query.arg = bc.tailBlock => query.blocks = <<>>
        ELSE query.err = ErrNotCanonical

\* fewer blocks are asked for than follow `from`, and the tree has a fork
C18_Witness ==
    /\ Asked("FetchDescendantInCanonicalChain")
    /\ OnCanonicalChain(query.arg)
    /\ query.n < HeightOf(bc, bc.tailBlock) - HeightOf(bc, query.arg)
    /\ Len(query.blocks) = query.n
    /\ \E b \in Blocks(bc) : ~OnCanonicalChain(b)

\* C19: DetachedTailBlocks returns the blocks of the tree that have no
\* child, all of them and nothing else
C19_DetachedTailsAreLeaves ==
    Asked("DetachedTailBlocks") => query.tails = Leaves(bc)

\* the tree has two leaves, the tail among them, and a block with a child
\* besides genesis
C19_Witness ==
    /\ Asked("DetachedTailBlocks")
    /\ Cardinality(query.tails) >= 2
    /\ bc.tailBlock \in query.tails
    /\ \E b \in Blocks(bc) \ {genesisBlock} : b \notin query.tails

\* C20: GasPrice returns the least gas price of the transactions of the
\* current tail block, and TransactionGasPrice when that block has none
C20_GasPriceOfTail ==
    Asked("GasPrice") =>
        LET txs == bc.blocks[bc.tailBlock].transactions
        IN  IF txs = <<>> THEN query.gasPrice = TransactionGasPrice
            ELSE /\ \E i \in DOMAIN txs : query.gasPrice = txs[i]
                 /\ \A i \in DOMAIN txs : query.gasPrice <= txs[i]

\* the tail has moved to a block with transactions, whose least price is
\* below the default, while another block of the tree has none
C20_Witness ==
    /\ Asked("GasPrice")
    /\ bc.tailBlock # genesisBlock
    /\ query.gasPrice = TransactionGasPrice - 1
    /\ \E b \in Blocks(bc) \ {genesisBlock} : bc.blocks[b].transactions = <<>>

----------------------------------------------------------------------------
(* Properties of the data model, checked under SpecData *)

\* the message decoded is the one ToProto made of the sender's transaction
Intact == Called("FromProto") /\ ret.arg = "intact"

\* C21: for a transaction made by NewTransaction, signed or not, FromProto
\* of its ToProto succeeds and gives a transaction with the same hash, from,
\* to, value, nonce, timestamp, data, chainID, gasPrice, gasLimit, alg and
\* sign
C21_ProtoRoundTrip ==
    Intact =>
        /\ ret.err = Nil
        /\ DOMAIN tx = DOMAIN EmptyTx
        /\ \A field \in DOMAIN EmptyTx : tx[field] = pre.tx[field]

\* a signed transaction with a payload and the largest value went over
C21_Witness ==
    /\ Intact
    /\ ret.err = Nil
    /\ tx.sign # <<>> /\ tx.alg = SECP256K1 /\ tx.hash # <<>>
    /\ tx.data.payload # <<>>
    /\ tx.value = Uint128Max

\* C22: after a Sign that returned no error the hash is the hash of the
\* fields the transaction has now, whatever hash it had before, and
\* VerifyIntegrity with the transaction's chain ID returns no error when
\* the signer is tx.from; signing again with no field assigned in between
\* leaves the hash as it was
C22_SignRefreshesHash ==
    (Called("Sign") /\ ret.err = Nil) =>
        /\ calHash(tx).err = Nil
        /\ tx.hash = calHash(tx).v
        /\ ret.arg = tx.from => VerifyIntegrity(tx, tx.chainID).err = Nil
        /\ pre.tx.hash = calHash(pre.tx).v => tx.hash = pre.tx.hash

\* the transaction was signed, had a field assigned and was signed again
\* by its sender
C22_Witness ==
    /\ Called("Sign") /\ ret.err = Nil
    /\ pre.tx.hash # <<>>
    /\ pre.tx.hash # calHash(pre.tx).v
    /\ ret.arg = tx.from

\* C23: a transaction that NewTransaction or FromProto gave without error
\* has gasPrice > 0, gasLimit > 0 and a payload of at most
\* MaxDataPayLoadLength bytes (the upper limits of gasPrice and gasLimit lie
\* above the numbers of this model, and are left out)
C23_DataModelInvariants ==
    ((Called("NewTransaction") \/ Called("FromProto")) /\ ret.err = Nil) =>
        /\ tx.gasPrice > 0
        /\ tx.gasLimit > 0
        /\ DataLen(tx) <= MaxDataPayLoadLength

----------------------------------------------------------------------------
(* Properties of the contract check, checked under SpecContract *)

\* the execution results among the events of the contract's birth place
BirthResults ==
    SelectSeq(FetchEvents(ws, BirthPlace(ret.arg.addr), NoFailure).events,
              LAMBDA e : e.Topic = TopicTransactionExecutionResult)

\* C24: when the world-state answers and the events parse, CheckContract
\* returns the contract if the last execution result among its birth events
\* has status success, and ErrContractCheckFailed with no contract if that
\* last result is a failure or there is no result at all
C24_LastResultDecides ==
    (Called("CheckContract") /\ ret.err \notin {ErrIO, ErrUnmarshal}) =>
        IF /\ BirthResults # <<>>
           /\ Unmarshal(BirthResults[Len(BirthResults)].Data).err = Nil
           /\ BirthResults[Len(BirthResults)].Data.Status = TxExecutionSuccess
        THEN ret.err = Nil /\ ret.arg.contract = ret.arg.addr
        ELSE ret.err = ErrContractCheckFailed /\ ret.arg.contract = Nil

----------------------------------------------------------------------------
(* Properties of simulation, checked under SpecSimulate *)

----------------------------------------------------------------------------
(* Properties of VerifyExecution's errors and gas, checked under SpecExec *)

\* C26: when VerifyExecution returns an error the world-state is the one
\* it was called on: no balance has changed, no gas and no event has been
\* recorded
C26_ErrorLeavesWorldState ==
    (Called("VerifyExecution") /\ ret.err # Nil) => ws = pre.ws

\* the result event of the last call is in the log
EventRecorded ==
    /\ Len(ws.events) = Len(pre.ws.events) + 1
    /\ LastEvent.event.Topic = TopicTransactionExecutionResult

\* C27: whenever VerifyExecution records gas, the amount recorded is
\* gasPrice * g for a gas count g with GasCountOfTxBase <= g <= gasLimit,
\* and the result event recorded with it has g as its gas_used
C27_RecordedGasWithinLimit ==
    GasRecorded =>
        /\ Charged = tx.gasPrice * RecordedGas
        /\ G0(tx) <= RecordedGas
        /\ RecordedGas <= tx.gasLimit
        /\ EventRecorded =>
               DecimalValue(LastEvent.event.Data.GasUsed) = RecordedGas

\* the payload ran out of gas at a gas price above 1: the gas limit, more
\* than the base gas, is what is recorded and reported
C27_Witness ==
    /\ GasRecorded
    /\ Ran /\ GTotal > tx.gasLimit
    /\ tx.gasPrice > 1
    /\ RecordedGas = tx.gasLimit
    /\ RecordedGas > G0(tx)
    /\ EventRecorded

----------------------------------------------------------------------------
(* Properties of the dispatcher's registrations: C28 checked under         *)
(* SpecDeliver, C29 and C30 under SpecAdmin                                *)

\* no subscriber has ever been registered for the type: the types' maps
\* are never removed from subscribersMap
NeverRegistered(type) == Load(dp.subscribersMap, type) = NilMap

\* C28: once the loop has taken a message of a type for which no subscriber
\* was ever registered, the program is still running
C28_LoopSurvivesUnknownType ==
    (\E i \in DOMAIN hist.taken : NeverRegistered(hist.taken[i].type))
        => Running

\* the subscribers of the type that asked for filtering and are registered
Filtering(dispatcher, type) ==
    {s \in Subscribers :
        /\ MessageType(s) = type
        /\ DoFilter(s)
        /\ type \in DOMAIN dispatcher.subscribersMap
        /\ s \in dispatcher.subscribersMap[type]}

\* C29: a Deregister(s) of a registered subscriber takes s, and nobody
\* else, out of the subscribers of its type, and leaves the type's filter in
\* force when it was and a subscriber that asked for filtering is still
\* registered
C29_DeregisterOnlyThatSubscriber ==
    /\ [][(adm.pc = "idle" /\ adm'.pc = "Deregister.filters") =>
             dp'.subscribersMap[MessageType(adm'.s)]
                 = dp.subscribersMap[MessageType(adm'.s)] \ {adm'.s}]_vars
    /\ [][(adm.pc = "Deregister.filters" /\ adm'.pc = "idle"
              /\ adm.s \in hist.registered
              /\ MapRead(dp.filters, MessageType(adm.s))
              /\ Filtering(dp', MessageType(adm.s)) # {}) =>
             MapRead(dp'.filters, MessageType(adm.s))]_vars

\* C30: the runtime never finds PutMessage reading dp.filters while
\* Register or Deregister writes it
C30_NoFilterRace ==
    crashed # "concurrent map read and map write"

----------------------------------------------------------------------------
(* The receiver of a simulation, checked under SpecSimulate *)

\* C31: after SimulateExecution the transaction has the gasLimit, the hash
\* and the signature it had before the call, and for every chain on which
\* it passed VerifyIntegrity before the call it passes it after the call
C31_SimulationLeavesTransaction ==
    Called("SimulateExecution") =>
        /\ tx.gasLimit = pre.tx.gasLimit
        /\ tx.hash = pre.tx.hash
        /\ tx.sign = pre.tx.sign
        /\ \A chainID \in ChainIDs :
               VerifyIntegrity(pre.tx, chainID).err = Nil =>
                   VerifyIntegrity(tx, chainID).err = Nil

----------------------------------------------------------------------------
(* The contract's transfer: TransferFunc, called by the virtual machine    *)
(* for a running contract, on the world-state of the engine's context      *)

MaxTransfers == 2

TransferFuncSuccess == "TransferFuncSuccess"
TransferGetEngineErr == "TransferGetEngineErr"
TransferAddressParseErr == "TransferAddressParseErr"
TransferGetAccountErr == "TransferGetAccountErr"
TransferStringToBigIntErr == "TransferStringToBigIntErr"
TransferSubBalance == "TransferSubBalance"
TransferAddBalance == "TransferAddBalance"

TransferGas == 2000

\* a character of a C string that is not a decimal digit
NotDigit == 10

\* util.NewUint128FromString: the string is parsed in base 10, and the
\* number has to fit
NewUint128FromString(str) ==
    IF str = <<>> \/ \E i \in 1..Len(str) : str[i] \notin 0..9
    THEN [v |-> NilUint128, err |-> ErrInvalidArgument]
    ELSE IF DecimalValue(str) > Uint128Max
    THEN [v |-> NilUint128, err |-> ErrUint128Overflow]
    ELSE [v |-> DecimalValue(str), err |-> Nil]

\* core.AddressParse of the C string `to`
AddressParse(str) ==
    IF str \in Addr THEN [v |-> str, err |-> Nil]
    ELSE [v |-> Nil, err |-> ErrInvalidAddress]

\* getEngineByStorageHandler(handler): no engine, an engine whose context
\* has no block, or the engine running the contract at address `contract`
Engines ==
    {[found |-> FALSE, block |-> FALSE, contract |-> "a1"],
     [found |-> TRUE, block |-> FALSE, contract |-> "a1"]}
    \cup {[found |-> TRUE, block |-> TRUE, contract |-> c] : c \in Addr}

TransferReturn(w, gasCnt, code) == [ws |-> w, gasCnt |-> gasCnt, code |-> code]

\* TransferFunc(handler, to, v, gasCnt): the world-state of the engine's
\* context after the call, *gasCnt (NilUint128 when it was not written)
\* and the code returned
TransferFunc(engine, to, v, w, f) ==
    LET addr == AddressParse(to)
        toAcc == GetOrCreateUserAccount(w, addr.v, "TransferFunc", f)
        amount == NewUint128FromString(v)
        sub == SubBalance(w, engine.contract, amount.v)
        add == AddBalance(sub.ws, toAcc.acc, amount.v)
    IN  IF ~engine.found \/ ~engine.block
        THEN TransferReturn(w, NilUint128, TransferGetEngineErr)
        ELSE IF addr.err # Nil
        THEN TransferReturn(w, TransferGas, TransferAddressParseErr)
        ELSE IF toAcc.err # Nil
        THEN TransferReturn(w, TransferGas, TransferGetAccountErr)
        ELSE IF amount.err # Nil
        THEN TransferReturn(w, TransferGas, TransferStringToBigIntErr)
        ELSE IF amount.v > 0 /\ sub.err # Nil
        THEN TransferReturn(sub.ws, TransferGas, TransferSubBalance)
        ELSE IF amount.v > 0 /\ add.err # Nil
        THEN TransferReturn(add.ws, TransferGas, TransferAddBalance)
        ELSE IF amount.v > 0
        THEN TransferReturn(add.ws, TransferGas, TransferFuncSuccess)
        ELSE TransferReturn(w, TransferGas, TransferFuncSuccess)

\* the strings a contract passes as `to`
TransferTargets == Addr \cup {"n1?"}

\* the strings a contract passes as `v`: 0, 1, 2, the largest number, the
\* number after it, the empty string and "1x"
TransferAmounts ==
    {Uint128String(n) : n \in {0, 1, 2, Uint128Max, Uint128Max + 1}}
    \cup {<<>>, <<1, NotDigit>>}

InitTransfer ==
    /\ ws \in InitWorldStates
    /\ cp = ws
    /\ tx = NilTx
    /\ pre = [ws |-> ws, tx |-> tx]
    /\ ret = Result("init", 0, FALSE, Nil, NoExec)
    /\ calls = 0
    /\ InitDispatcher
    /\ InitChain

DoTransferFunc ==
    /\ calls < MaxTransfers
    /\ \E engine \in Engines, to \in TransferTargets, v \in TransferAmounts,
          f \in {NoFailure, "TransferFunc"} :
       \E r \in {TransferFunc(engine, to, v, ws, f)} :
            /\ ws' = r.ws
            /\ pre' = [ws |-> ws, tx |-> tx]
            /\ ret' = Result("TransferFunc",
                             [contract |-> engine.contract, to |-> to,
                              v |-> v, gasCnt |-> r.gasCnt],
                             FALSE, r.code, NoExec)
            /\ calls' = calls + 1
            /\ UNCHANGED <<cp, tx>>
            /\ UNCHANGED <<dpVars, bcVars>>

NextTransfer == DoTransferFunc

SpecTransfer == InitTransfer /\ [][NextTransfer]_vars

----------------------------------------------------------------------------
(* Properties of the contract's transfer, checked under SpecTransfer *)

\* the amount of the call that has returned
TransferAmount == NewUint128FromString(ret.arg.v).v

\* C32: when TransferFunc returns TransferFuncSuccess with amount > 0 the
\* contract has amount less and the recipient, another account, amount more
\* than before the call; when it returns an error code every balance is the
\* one before the call; with amount = 0 it succeeds and changes nothing
C32_TransferConservesValue ==
    Called("TransferFunc") =>
        /\ (ret.err = TransferFuncSuccess /\ TransferAmount > 0
                /\ ret.arg.to # ret.arg.contract) =>
               /\ ws.balance[ret.arg.contract]
                      = pre.ws.balance[ret.arg.contract] - TransferAmount
               /\ ws.balance[ret.arg.to]
                      = pre.ws.balance[ret.arg.to] + TransferAmount
        /\ ret.err # TransferFuncSuccess => ws.balance = pre.ws.balance
        /\ (ret.err \notin {TransferGetEngineErr, TransferAddressParseErr,
                            TransferGetAccountErr}
                /\ NewUint128FromString(ret.arg.v).err = Nil
                /\ TransferAmount = 0) =>
               ret.err = TransferFuncSuccess /\ ws = pre.ws

====
